---- MODULE Spec2Model ----
(***************************************************************************)
(* return-dispatch: the run-identification protocol.                       *)
(*                                                                         *)
(* The model follows one sequential async call from its entry to its       *)
(* return (or to the exception that leaves it).  Every `await` of the code *)
(* is a position of pc; an action is the synchronous code between two      *)
(* awaits.  The remote calls (candidate listing, step listing, run URL     *)
(* lookup) are the environment: each may resolve with any value of a small *)
(* set, or reject, and takes a duration of the wall clock `now`.           *)
(***************************************************************************)
EXTENDS Integers, Sequences, FiniteSets, TLC

VARIABLES
    entry,          \* the function the caller invoked
    pc,             \* position of the (single) thread of control
    now,            \* Date.now()
    ret,            \* value the entry function returned
    thrown,         \* value that left the entry function as an exception
    \* getRunId frame
    startTime, timeoutMs, attemptNo, elapsedTime, fetchWorkflowRunIds, scanResult,
    \* retryOrTimeout frame
    rotStartTime, rotTimeoutMs, rotElapsedTime,
    \* attemptToFindRunId frame
    workflowRunIds, currentWorkflowRunIndex, currentGetWorkflowRunJobStepsAttempt,
    \* observation of the calls made (what the mocks of a test record)
    rotCalls,       \* invocations of retryOrTimeout
    retryFuncCalls, \* invocations of the producer by the current retryOrTimeout
    rotSleeps,      \* sleeps of the current retryOrTimeout
    lastResponse,   \* what the producer resolved with latest
    outstanding,    \* remote calls and sleeps issued and not yet settled
    scanCalls,      \* invocations of attemptToFindRunId
    roundSleeps,    \* sleeps between rounds of getRunId
    roundStartElapsed, \* now - startTime at the moment the latest round began
    stepFetches,    \* current scan: step fetches issued, per candidate index
    candidateLog,   \* current scan: calls and sleeps of the candidate inspected latest
    anyRejected,    \* current scan: some remote call rejected
    onlyServerErrors, \* current scan: every step fetch so far rejected with "Server Error"
    \* etags.ts
    etagStore,      \* the module's Map: serialized (endpoint, params) -> entry
    pending,        \* per caller: the withEtag call suspended at its requester, if any
    lastCall,       \* observation: the response and the return value of the withEtag call
                    \* that settled latest
    validators,     \* observation: per request, the validator stored since the last clearEtags
    \* main.ts
    mainPc,         \* position of main
    config,         \* what getConfig() returned
    workflowPages,  \* fetchWorkflowId: the pages of the workflow listing received so far
    workflowId,     \* main's workflowId, once resolved
    branch,         \* main's branch, once computed
    mainSteps,      \* observation: the calls main has made, in order, with their outcome
    listRequest,    \* observation: the listing request getRunId's candidate fetch sends
    outputs,        \* core.setOutput: the outputs set
    failed          \* core.setFailed: the messages flagged

vars == <<entry, pc, now, ret, thrown,
          startTime, timeoutMs, attemptNo, elapsedTime, fetchWorkflowRunIds, scanResult,
          rotStartTime, rotTimeoutMs, rotElapsedTime,
          workflowRunIds, currentWorkflowRunIndex, currentGetWorkflowRunJobStepsAttempt,
          rotCalls, retryFuncCalls, rotSleeps, lastResponse, outstanding,
          scanCalls, roundSleeps, roundStartElapsed,
          stepFetches, candidateLog, anyRejected, onlyServerErrors,
          etagStore, pending, lastCall, validators,
          mainPc, config, workflowPages, workflowId, branch, mainSteps, listRequest,
          outputs, failed>>

getRunIdFrame == <<startTime, timeoutMs, attemptNo, elapsedTime, fetchWorkflowRunIds, scanResult>>
rotFrame == <<rotStartTime, rotTimeoutMs, rotElapsedTime>>
scanFrame == <<workflowRunIds, currentWorkflowRunIndex, currentGetWorkflowRunJobStepsAttempt>>
rotObs == <<retryFuncCalls, rotSleeps, lastResponse>>
roundObs == <<rotCalls, scanCalls, roundSleeps, roundStartElapsed>>
scanObs == <<stepFetches, candidateLog, anyRejected, onlyServerErrors>>
etagVars == <<etagStore, pending, lastCall, validators>>
mainVars == <<mainPc, config, workflowPages, workflowId, branch, mainSteps, listRequest,
              outputs, failed>>
protocolVars == <<entry, pc, now, ret, thrown, getRunIdFrame, rotFrame, scanFrame,
                  rotObs, outstanding, roundObs, scanObs>>

-----------------------------------------------------------------------------
\* Program constants (constants.ts, api.ts)

WORKFLOW_FETCH_TIMEOUT_MS == 60000
WORKFLOW_JOB_STEPS_RETRY_MS == 5000
WORKFLOW_JOB_STEPS_SERVER_ERROR_RETRY_MAX == 3
WORKFLOW_JOB_STEPS_SERVER_ERROR_RETRY_MS == 500
RETRY_OR_TIMEOUT_SLEEP_MS == 1000

\* Bounds of the model
MaxLen == 2             \* longest candidate list
MaxTimeoutSteps == 2    \* workflowTimeoutSeconds is one of 0, 5, .. 5 * MaxTimeoutSteps, or 65
MaxRounds == 3          \* rounds of getRunId the model follows
MaxAgeSteps == 1        \* time already elapsed since startTime at entry, in steps of 5 s
MaxBudgetSteps == 5     \* retryOrTimeout called directly: budget up to 500 * MaxBudgetSteps ms
MaxEmpty == 2           \* only the first MaxEmpty + 1 listings of a fetch may show runs or be slow

RunIds == {101, 102}
Undefined == 0          \* an `undefined` entry of the candidate array

TimeoutSeconds == {5 * k : k \in 0..MaxTimeoutSteps} \cup {65}
EntryAges == {5000 * k : k \in 0..MaxAgeSteps}
DirectBudgets == {500 * k : k \in (0 - 1)..MaxBudgetSteps}
\* the listing call returns at once or after a second
CallDurations == {0, 1000}
\* the step listing and the URL lookup return at once
StepDurations == {0}

RECURSIVE SeqsUpTo(_, _)
SeqsUpTo(S, n) ==
    IF n = 0 THEN {<<>>}
    ELSE LET shorter == SeqsUpTo(S, n - 1)
         IN  shorter \cup {Append(s, x) : s \in {t \in shorter : Len(t) = n - 1}, x \in S}

\* what api.getWorkflowRunIds resolves with: run ids, newest first (possibly none)
ProducerLists == {<<>>, <<101>>, <<102, 101>>}
\* what a direct caller may hand to attemptToFindRunId (the tests pass [undefined])
DirectLists == SeqsUpTo(RunIds \cup {Undefined}, MaxLen)

Max(a, b) == IF a > b THEN a ELSE b

-----------------------------------------------------------------------------
\* Step names and the correlation pattern.  A name is a sequence of
\* characters; new RegExp(distinctId).test(step) is a substring search.

distinctId == <<"i", "d">>

RegExpTest(pattern, str) ==
    \E k \in 1..(Len(str) - Len(pattern) + 1) :
        SubSeq(str, k, k + Len(pattern) - 1) = pattern

StepPlain == <<"r", "u", "n">>
StepMarked == <<"x", "i", "d", "y">>
StepAlmost == <<"i", "x", "d">>

\* what api.getWorkflowRunJobSteps resolves with (names already deduplicated)
StepLists == { <<>>, <<StepPlain>>, <<StepPlain, StepAlmost>>,
               <<StepPlain, StepMarked>>, <<StepMarked>> }

\* part_016:56-61: for (const step of steps) if (idRegex.test(step)) ...
AnyStepMatches(steps) == \E i \in 1..Len(steps) : RegExpTest(distinctId, steps[i])

\* what api.fetchWorkflowRunUrl(id) resolves with: the html_url of run `id`
UrlOf(id) == <<"https://github.com/runs", id>>

\* values a remote call may reject with
ErrServer == [isError |-> TRUE, message |-> "Server Error"]
ErrNotFound == [isError |-> TRUE, message |-> "Not Found"]
ErrOther == [isError |-> TRUE, message |-> "Unhandled Error"]
NonError == [isError |-> FALSE, message |-> "thrown"]
Rejections == {ErrServer, ErrNotFound, ErrOther, NonError}
\* the listing call throws an Error for a status other than 200
ListingRejections == {ErrOther}
NothingThrown == [isError |-> FALSE, message |-> ""]

\* types.ts Result<T>
Success(v) == [success |-> TRUE, value |-> v, reason |-> ""]
Failure(r) == [success |-> FALSE, value |-> <<>>, reason |-> r]
NoResult == Failure("none")

-----------------------------------------------------------------------------
\* etags.ts: the conditional-fetch cache.  A value that may be undefined is a
\* sequence of at most one element; a text is the sequence of its pieces.

Absent == <<>>
Present(v) == <<v>>
\* JavaScript truthiness of a possibly undefined text: defined and not ""
Truthy(v) == v # Absent /\ v[1] # <<>>

\* the character the validator is cut at
Quote == "<dquote>"
\* texts of the etag header a response may carry: a weak validator, a strong
\* one, and a text without quotes
EtagHeaderTexts == {<<"W/", Quote, "v1", Quote>>, <<Quote, "v2", Quote>>, <<"v1">>}
NoHeaders == [h \in {} |-> h]
ResponseHeaders == {NoHeaders} \cup {[etag |-> text] : text \in EtagHeaderTexts}
\* what the requester may resolve with: a listing, or "not modified" without a body
Responses ==
    [status : {200}, headers : ResponseHeaders, data : {"d1"}]
        \cup [status : {304}, headers : ResponseHeaders, data : {""}]

\* utils.ts BranchNameResult: RefTag | RefBranch, branchName a text or undefined
RefTag == [isTag |-> TRUE, branchName |-> Absent]
RefBranch(branchName) == [isTag |-> FALSE, branchName |-> branchName]

\* part_003:436-439
useBranchFilter(branchNameResult) ==
    /\ ~branchNameResult.isTag
    /\ branchNameResult.branchName # Absent
    /\ branchNameResult.branchName[1] # ""

\* a listing request that never filters by branch
ListWorkflowRunsRequest_NoFilter(branchNameResult) ==
    [endpoint |-> "listWorkflowRuns",
     params |-> <<<<"owner", "o">>, <<"repo", "r">>, <<"workflow_id", "7">>,
                  <<"created", ">=t0">>, <<"event", "workflow_dispatch">>,
                  <<"per_page", "20">>>>]

\* the (endpoint, params) pairs as the two callers of withEtag build them;
\* params is the list of the object's properties in insertion order
ListWorkflowRunsRequest(branchNameResult) ==
    [endpoint |-> "listWorkflowRuns",
     params |-> <<<<"owner", "o">>, <<"repo", "r">>, <<"workflow_id", "7">>,
                  <<"created", ">=t0">>, <<"event", "workflow_dispatch">>>>
                \o (IF useBranchFilter(branchNameResult)
                    THEN <<<<"branch", branchNameResult.branchName[1]>>,
                           <<"per_page", "10">>>>
                    ELSE <<<<"per_page", "20">>>>)]
ListJobsForWorkflowRunRequest(runId) ==
    [endpoint |-> "listJobsForWorkflowRun",
     params |-> <<<<"owner", "o">>, <<"repo", "r">>, <<"run_id", runId>>,
                  <<"filter", "latest">>>>]
Requests ==
    {ListWorkflowRunsRequest(b) : b \in {RefBranch(Present("main")), RefTag}}
        \cup {ListJobsForWorkflowRunRequest("101")}

\* callers that may each have one withEtag call in progress
Callers == {"c1", "c2"}

RECURSIVE JSONStringifyParams(_)
JSONStringifyParams(params) ==
    IF params = <<>> THEN <<>>
    ELSE <<Head(params)[1], ":", Head(params)[2]>> \o JSONStringifyParams(Tail(params))
\* a key that leaves the parameters out
JSONStringify_EndpointOnly(endpoint, params) ==
    <<"endpoint", ":", endpoint>>

\* JSON.stringify({ endpoint, params }): the Map's key
JSONStringify(endpoint, params) ==
    <<"endpoint", ":", endpoint, "params", ":">> \o JSONStringifyParams(params)

RECURSIVE Split(_)
\* text.split('"')
Split(text) ==
    IF \E i \in 1..Len(text) : text[i] = Quote
    THEN LET i == CHOOSE k \in 1..Len(text) :
                      text[k] = Quote /\ \A j \in 1..(k - 1) : text[j] # Quote
         IN <<SubSeq(text, 1, i - 1)>> \o Split(SubSeq(text, i + 1, Len(text)))
    ELSE <<text>>

extractEtag(response) ==
    IF "etag" \notin DOMAIN response.headers THEN Absent
    ELSE LET pieces == Split(response.headers.etag)
         IN Present(IF Len(pieces) >= 2 THEN pieces[2] ELSE <<>>)

getEtag(endpoint, params) ==
    IF JSONStringify(endpoint, params) \in DOMAIN etagStore
    THEN Present(etagStore[JSONStringify(endpoint, params)])
    ELSE Absent

\* an update that leaves an entry written meanwhile in place
rememberEtag_KeepsExisting(endpoint, params, response) ==
    IF ~Truthy(extractEtag(response)) \/ JSONStringify(endpoint, params) \in DOMAIN etagStore
    THEN etagStore
    ELSE LET key == JSONStringify(endpoint, params)
             stored == [etag |-> extractEtag(response)[1], savedResponse |-> response]
         IN [k \in DOMAIN etagStore \cup {key} |-> IF k = key THEN stored ELSE etagStore[k]]

\* the Map after rememberEtag(endpoint, params, response)
rememberEtag(endpoint, params, response) ==
    IF ~Truthy(extractEtag(response)) THEN etagStore
    ELSE LET key == JSONStringify(endpoint, params)
             stored == [etag |-> extractEtag(response)[1], savedResponse |-> response]
         IN [k \in DOMAIN etagStore \cup {key} |-> IF k = key THEN stored ELSE etagStore[k]]

\* the Map after clear()
EmptyStore == [k \in {} |-> k]

NoValidators == [r \in Requests |-> Absent]

-----------------------------------------------------------------------------
\* main.ts, getWorkflowId, fetchWorkflowId, getBranchName: data

MaxPages == 2           \* pages of the workflow listing

\* config.workflow: a number, or a file name (a text, as its pieces)
NumberRef(n) == [isNumber |-> TRUE, number |-> n, text |-> <<>>]
NameRef(text) == [isNumber |-> FALSE, number |-> 0, text |-> text]
WorkflowRefs == {NumberRef(7), NameRef(<<"cake", ".yml">>)}

\* config.ref, as its pieces; a branch name is one piece
Refs == {<<"refs/heads/", "main">>, <<"/", "refs/heads/", "dev">>, <<"refs/heads/">>,
         <<"refs/tags/", "v1">>, <<"main">>}
Configs == [workflow : WorkflowRefs, ref : Refs]
NoConfig == [workflow |-> NumberRef(0), ref |-> <<>>]

\* entries of the workflow listing
Workflow(id, file) ==
    [id |-> id, path |-> <<".github", "/", "workflows", "/">> \o file]
Workflows == {Workflow(1, <<"cake", ".yml">>),
              Workflow(2, <<"small-", "cake", ".yml">>),
              Workflow(3, <<"cake", ".yml", ".yaml">>)}
PageData ==
    {<<>>} \cup {<<w>> : w \in Workflows}
           \cup ({<<v, w>> : v, w \in Workflows} \ {<<w, w>> : w \in Workflows})
\* a page of the listing as the iterator yields it; hasNext: another page follows
WorkflowPages ==
    [status : {200}, data : PageData, hasNext : BOOLEAN]
        \cup {[status |-> 500, data |-> <<>>, hasNext |-> FALSE]}

\* part_003:336-339: new RegExp(`/${sanitisedFilename}`).test(path), the special
\* characters of the file name escaped: "/" and the name occur in the path
filenameRegexTest(filename, path) ==
    \E i \in 1..Len(path) :
        /\ i + Len(filename) <= Len(path)
        /\ SubSeq(path, i, i + Len(filename)) = <<"/">> \o filename

\* part_003:358-361: response.data.find(...)?.id
FindWorkflow(filename, data) ==
    IF \E i \in 1..Len(data) : filenameRegexTest(filename, data[i].path)
    THEN Present(data[CHOOSE i \in 1..Len(data) :
                          /\ filenameRegexTest(filename, data[i].path)
                          /\ \A j \in 1..(i - 1) :
                                 ~filenameRegexTest(filename, data[j].path)].id)
    ELSE Absent

ErrConfig == [isError |-> TRUE, message |-> "Bad config"]
ErrWorkflowsStatus == [isError |-> TRUE, message |-> "Failed to fetch workflows"]
ErrNoWorkflow == [isError |-> TRUE, message |-> "Unable to find ID for Workflow"]
ErrDispatchStatus == [isError |-> TRUE, message |-> "Failed to dispatch action"]

\* part_017:10-12
isTagRef(ref) == \E i \in 1..Len(ref) : ref[i] = "refs/tags/"

RECURSIVE SplitOnHeads(_)
\* part_017:4: ref.split(/\/?refs\/heads\//)
SplitOnHeads(ref) ==
    IF \E i \in 1..Len(ref) : ref[i] = "refs/heads/"
    THEN LET i == CHOOSE k \in 1..Len(ref) :
                      ref[k] = "refs/heads/" /\ \A j \in 1..(k - 1) : ref[j] # "refs/heads/"
             before == IF i > 1 /\ ref[i - 1] = "/" THEN i - 2 ELSE i - 1
         IN <<SubSeq(ref, 1, before)>> \o SplitOnHeads(SubSeq(ref, i + 1, Len(ref)))
    ELSE <<ref>>

\* part_017:3-8
getBranchNameFromRef(ref) ==
    LET refItems == SplitOnHeads(ref)
    IN IF Len(refItems) > 1 /\ Len(refItems[2]) > 0
       THEN Present(refItems[2][1])
       ELSE Absent

\* part_017:27-47
getBranchName(ref) ==
    IF isTagRef(ref) THEN RefTag ELSE RefBranch(getBranchNameFromRef(ref))

\* core.setOutput / core.setFailed
NoOutputs == [o \in {} |-> o]
TimeoutMessage == <<"Timeout exceeded while attempting to get Run ID">>
FailureMessage(error) ==
    IF error.isError
    THEN <<"Failed: An unhandled error has occurred: ", error.message>>
    ELSE <<"Failed: An unknown error has occurred: ", error.message>>

Step(op, outcome) == [op |-> op, outcome |-> outcome]

-----------------------------------------------------------------------------
Init ==
    /\ entry = "none"
    /\ pc = "idle"
    /\ now = 0
    /\ ret = NoResult
    /\ thrown = NothingThrown
    /\ startTime = 0
    /\ timeoutMs = 0
    /\ attemptNo = 0
    /\ elapsedTime = 0
    /\ fetchWorkflowRunIds = NoResult
    /\ scanResult = NoResult
    /\ rotStartTime = 0
    /\ rotTimeoutMs = 0
    /\ rotElapsedTime = 0
    /\ workflowRunIds = <<>>
    /\ currentWorkflowRunIndex = 0
    /\ currentGetWorkflowRunJobStepsAttempt = 0
    /\ rotCalls = 0
    /\ retryFuncCalls = 0
    /\ rotSleeps = 0
    /\ lastResponse = <<>>
    /\ outstanding = 0
    /\ scanCalls = 0
    /\ roundSleeps = 0
    /\ roundStartElapsed = 0
    /\ stepFetches = <<>>
    /\ candidateLog = <<>>
    /\ anyRejected = FALSE
    /\ onlyServerErrors = TRUE
    /\ etagStore = EmptyStore
    /\ pending = [c \in Callers |-> Absent]
    /\ lastCall = Absent
    /\ validators = NoValidators
    /\ mainPc = "idle"
    /\ config = NoConfig
    /\ workflowPages = <<>>
    /\ workflowId = Absent
    /\ branch = Absent
    /\ mainSteps = <<>>
    /\ listRequest = Absent
    /\ outputs = NoOutputs
    /\ failed = <<>>

-----------------------------------------------------------------------------
\* Calls and returns.  A function called directly returns to its caller's
\* harness (ret); called from getRunId it returns into getRunId's frame.

\* an exception: nothing between the remote call and the entry point catches it
Throw(e) ==
    /\ pc' = "thrown"
    /\ thrown' = e

\* part_003:557-558: const startTime = Date.now(); let elapsedTime = 0;
EnterRetryOrTimeout(budget) ==
    /\ rotStartTime' = now
    /\ rotElapsedTime' = 0
    /\ rotTimeoutMs' = budget
    /\ retryFuncCalls' = 0
    /\ rotSleeps' = 0
    /\ lastResponse' = <<>>
    /\ rotCalls' = rotCalls + 1
    /\ pc' = "rot_while"

\* a fetch that timed out handed on to getRunId as a success with an empty array
RetryOrTimeoutReturns_EmptySuccess(r) ==
    IF entry = "retryOrTimeout"
    THEN /\ pc' = "done"
         /\ ret' = r
         /\ UNCHANGED <<fetchWorkflowRunIds, rotFrame, retryFuncCalls, rotSleeps>>
    ELSE /\ pc' = "run_afterFetch"
         /\ fetchWorkflowRunIds' = IF r.success THEN r ELSE Success(<<>>)
         /\ rotStartTime' = 0
         /\ rotTimeoutMs' = 0
         /\ rotElapsedTime' = 0
         /\ retryFuncCalls' = 0
         /\ rotSleeps' = 0
         /\ UNCHANGED ret

\* Back in getRunId the frame of retryOrTimeout is gone.
RetryOrTimeoutReturns(r) ==
    IF entry = "retryOrTimeout"
    THEN /\ pc' = "done"
         /\ ret' = r
         /\ UNCHANGED <<fetchWorkflowRunIds, rotFrame, retryFuncCalls, rotSleeps>>
    ELSE /\ pc' = "run_afterFetch"
         /\ fetchWorkflowRunIds' = r
         /\ rotStartTime' = 0
         /\ rotTimeoutMs' = 0
         /\ rotElapsedTime' = 0
         /\ retryFuncCalls' = 0
         /\ rotSleeps' = 0
         /\ UNCHANGED ret

\* part_016:45-46
EnterAttemptToFindRunId(ids) ==
    /\ workflowRunIds' = ids
    /\ currentWorkflowRunIndex' = 0
    /\ currentGetWorkflowRunJobStepsAttempt' = 0
    /\ scanCalls' = scanCalls + 1
    /\ stepFetches' = [i \in 1..Len(ids) |-> 0]
    /\ candidateLog' = <<>>
    /\ anyRejected' = FALSE
    /\ onlyServerErrors' = TRUE
    /\ pc' = "scan_while"

AttemptToFindRunIdReturns(r) ==
    IF entry = "attemptToFindRunId"
    THEN /\ pc' = "done"
         /\ ret' = r
         /\ UNCHANGED scanResult
    ELSE /\ pc' = "run_afterScan"
         /\ scanResult' = r
         /\ UNCHANGED ret

-----------------------------------------------------------------------------
\* The callers (main, or a test) invoke one of the three functions.

\* main takes startTime = Date.now() before workflow-id resolution and the
\* dispatch, so `age` ms have passed when getRunId is entered.
\* part_016:127-142
CallGetRunId ==
    /\ pc = "idle"
    /\ UNCHANGED outstanding
    /\ \E secs \in TimeoutSeconds, age \in EntryAges :
        /\ now' = now + age
        /\ startTime' = now
        /\ timeoutMs' = secs * 1000
        /\ attemptNo' = 0
        /\ elapsedTime' = now' - startTime'
    /\ entry' = "getRunId"
    /\ pc' = "run_while"
    /\ UNCHANGED <<ret, thrown, fetchWorkflowRunIds, scanResult, rotFrame, scanFrame,
                   rotObs, roundObs, scanObs>>
    /\ UNCHANGED etagVars
    /\ UNCHANGED mainVars

CallRetryOrTimeout ==
    /\ pc = "idle"
    /\ UNCHANGED outstanding
    /\ entry' = "retryOrTimeout"
    /\ \E budget \in DirectBudgets : EnterRetryOrTimeout(budget)
    /\ UNCHANGED <<now, ret, thrown, getRunIdFrame, scanFrame, scanCalls,
                   roundSleeps, roundStartElapsed, scanObs>>
    /\ UNCHANGED etagVars
    /\ UNCHANGED mainVars

CallAttemptToFindRunId ==
    /\ pc = "idle"
    /\ UNCHANGED outstanding
    /\ entry' = "attemptToFindRunId"
    /\ \E ids \in DirectLists : EnterAttemptToFindRunId(ids)
    /\ UNCHANGED <<now, ret, thrown, getRunIdFrame, rotFrame, rotCalls, rotObs,
                   roundSleeps, roundStartElapsed>>
    /\ UNCHANGED etagVars
    /\ UNCHANGED mainVars

-----------------------------------------------------------------------------
\* getRunId (part_016:127-175)

\* the loop test on the time elapsed now, not on the stored measurement
RunLoopContinues_Fresh == now - startTime < timeoutMs

\* the loop test made inclusive
RunLoopContinues_Inclusive == elapsedTime <= timeoutMs

\* part_016:143 while (elapsedTime < timeoutMs)
RunLoopContinues == elapsedTime < timeoutMs

\* the budget computed from what is left of the overall timeout
FetchBudget_Remaining == Max(WORKFLOW_FETCH_TIMEOUT_MS, timeoutMs - (now - startTime))

\* part_016:150
FetchBudget == Max(WORKFLOW_FETCH_TIMEOUT_MS, timeoutMs)

\* a loop that runs its body once before the first test (do ... while)
GetRunIdWhile_BodyFirst ==
    /\ pc = "run_while"
    /\ UNCHANGED outstanding
    /\ (RunLoopContinues \/ attemptNo = 0) => attemptNo < MaxRounds
    /\ IF RunLoopContinues \/ attemptNo = 0
       THEN /\ attemptNo' = attemptNo + 1
            /\ elapsedTime' = now - startTime
            /\ roundStartElapsed' = now - startTime
            /\ EnterRetryOrTimeout(FetchBudget)
            /\ UNCHANGED ret
       ELSE /\ pc' = "done"
            /\ ret' = Failure("timeout")
            /\ UNCHANGED <<attemptNo, elapsedTime, roundStartElapsed,
                           rotFrame, rotCalls, rotObs>>
    /\ UNCHANGED <<entry, now, thrown, startTime, timeoutMs, fetchWorkflowRunIds, scanResult,
                   scanFrame, scanCalls, roundSleeps, scanObs>>
    /\ UNCHANGED etagVars
    /\ UNCHANGED mainVars

\* a round that begins without measuring the elapsed time again
GetRunIdWhile_KeepsElapsed ==
    /\ pc = "run_while"
    /\ UNCHANGED outstanding
    /\ RunLoopContinues => attemptNo < MaxRounds
    /\ IF RunLoopContinues
       THEN /\ attemptNo' = attemptNo + 1
            /\ UNCHANGED elapsedTime
            /\ roundStartElapsed' = now - startTime
            /\ EnterRetryOrTimeout(FetchBudget)
            /\ UNCHANGED ret
       ELSE /\ pc' = "done"
            /\ ret' = Failure("timeout")
            /\ UNCHANGED <<attemptNo, elapsedTime, roundStartElapsed,
                           rotFrame, rotCalls, rotObs>>
    /\ UNCHANGED <<entry, now, thrown, startTime, timeoutMs, fetchWorkflowRunIds, scanResult,
                   scanFrame, scanCalls, roundSleeps, scanObs>>
    /\ UNCHANGED etagVars
    /\ UNCHANGED mainVars

\* part_016:143-151, 174: the loop test; a round begins with attemptNo++ and
\* the refresh of elapsedTime, then retryOrTimeout is called.
GetRunIdWhile ==
    /\ pc = "run_while"
    /\ UNCHANGED outstanding
    /\ RunLoopContinues => attemptNo < MaxRounds
    /\ IF RunLoopContinues
       THEN /\ attemptNo' = attemptNo + 1
            /\ elapsedTime' = now - startTime
            /\ roundStartElapsed' = now - startTime
            /\ EnterRetryOrTimeout(FetchBudget)
            /\ UNCHANGED ret
       ELSE /\ pc' = "done"
            /\ ret' = Failure("timeout")
            /\ UNCHANGED <<attemptNo, elapsedTime, roundStartElapsed,
                           rotFrame, rotCalls, rotObs>>
    /\ UNCHANGED <<entry, now, thrown, startTime, timeoutMs, fetchWorkflowRunIds, scanResult,
                   scanFrame, scanCalls, roundSleeps, scanObs>>
    /\ UNCHANGED etagVars
    /\ UNCHANGED mainVars

\* `continue` in place of `break`: a timed-out candidate fetch ends the round
\* in the inter-round sleep
GetRunIdAfterFetch_SleepsOnTimeout ==
    /\ pc = "run_afterFetch"
    /\ outstanding' = IF fetchWorkflowRunIds.success THEN outstanding ELSE outstanding + 1
    /\ IF ~fetchWorkflowRunIds.success
       THEN /\ pc' = "run_sleep"
            /\ roundSleeps' = roundSleeps + 1
            /\ UNCHANGED <<ret, scanFrame, scanCalls, scanObs>>
       ELSE /\ EnterAttemptToFindRunId(fetchWorkflowRunIds.value)
            /\ UNCHANGED <<ret, roundSleeps>>
    /\ UNCHANGED <<entry, now, thrown, getRunIdFrame, rotFrame, rotCalls, rotObs,
                   roundStartElapsed>>
    /\ UNCHANGED etagVars
    /\ UNCHANGED mainVars

\* part_016:152-164: the candidate fetch came back
GetRunIdAfterFetch ==
    /\ pc = "run_afterFetch"
    /\ UNCHANGED outstanding
    /\ IF ~fetchWorkflowRunIds.success
       THEN /\ pc' = "done"                         \* break; return timeout
            /\ ret' = Failure("timeout")
            /\ UNCHANGED <<scanFrame, scanCalls, scanObs>>
       ELSE /\ EnterAttemptToFindRunId(fetchWorkflowRunIds.value)
            /\ UNCHANGED ret
    /\ UNCHANGED <<entry, now, thrown, getRunIdFrame, rotFrame, rotCalls, rotObs,
                   roundSleeps, roundStartElapsed>>
    /\ UNCHANGED etagVars
    /\ UNCHANGED mainVars

\* the test of result.success left out: every round ends in the sleep
GetRunIdAfterScan_IgnoresSuccess ==
    /\ pc = "run_afterScan"
    /\ outstanding' = outstanding + 1
    /\ pc' = "run_sleep"
    /\ roundSleeps' = roundSleeps + 1
    /\ UNCHANGED <<entry, now, ret, thrown, getRunIdFrame, rotFrame, scanFrame, rotCalls,
                   rotObs, scanCalls, roundStartElapsed, scanObs>>
    /\ UNCHANGED etagVars
    /\ UNCHANGED mainVars

\* a match is given up for the Timeout failure when the deadline has passed
GetRunIdAfterScan_ChecksDeadline ==
    /\ pc = "run_afterScan"
    /\ IF scanResult.success
       THEN /\ pc' = "done"
            /\ ret' = IF now - startTime >= timeoutMs THEN Failure("timeout")
                      ELSE scanResult
            /\ UNCHANGED <<roundSleeps, scanFrame, scanObs, fetchWorkflowRunIds,
                           scanResult, lastResponse, outstanding>>
       ELSE /\ pc' = "run_sleep"
            /\ roundSleeps' = roundSleeps + 1
            /\ workflowRunIds' = <<>>
            /\ currentWorkflowRunIndex' = 0
            /\ currentGetWorkflowRunJobStepsAttempt' = 0
            /\ stepFetches' = <<>>
            /\ candidateLog' = <<>>
            /\ anyRejected' = FALSE
            /\ onlyServerErrors' = TRUE
            /\ fetchWorkflowRunIds' = NoResult
            /\ scanResult' = NoResult
            /\ lastResponse' = <<>>
            /\ outstanding' = outstanding + 1
            /\ UNCHANGED ret
    /\ UNCHANGED <<entry, now, thrown, startTime, timeoutMs, attemptNo, elapsedTime,
                   rotFrame, rotCalls, retryFuncCalls, rotSleeps, scanCalls,
                   roundStartElapsed>>
    /\ UNCHANGED etagVars
    /\ UNCHANGED mainVars

\* part_016:165-171: the scan came back.  When the round ends without a match
\* its locals go out of scope and the observation of its scan is dropped.
GetRunIdAfterScan ==
    /\ pc = "run_afterScan"
    /\ IF scanResult.success
       THEN /\ pc' = "done"
            /\ ret' = scanResult
            /\ UNCHANGED <<roundSleeps, scanFrame, scanObs, fetchWorkflowRunIds,
                           scanResult, lastResponse, outstanding>>
       ELSE /\ pc' = "run_sleep"                    \* await sleep(WORKFLOW_JOB_STEPS_RETRY_MS)
            /\ roundSleeps' = roundSleeps + 1
            /\ workflowRunIds' = <<>>
            /\ currentWorkflowRunIndex' = 0
            /\ currentGetWorkflowRunJobStepsAttempt' = 0
            /\ stepFetches' = <<>>
            /\ candidateLog' = <<>>
            /\ anyRejected' = FALSE
            /\ onlyServerErrors' = TRUE
            /\ fetchWorkflowRunIds' = NoResult
            /\ scanResult' = NoResult
            /\ lastResponse' = <<>>
            /\ outstanding' = outstanding + 1
            /\ UNCHANGED ret
    /\ UNCHANGED <<entry, now, thrown, startTime, timeoutMs, attemptNo, elapsedTime,
                   rotFrame, rotCalls, retryFuncCalls, rotSleeps, scanCalls,
                   roundStartElapsed>>
    /\ UNCHANGED etagVars
    /\ UNCHANGED mainVars

\* the sleep between rounds with the interval of the server-error backoff
GetRunIdSleepDone_BackoffInterval ==
    /\ pc = "run_sleep"
    /\ outstanding' = outstanding - 1
    /\ now' = now + WORKFLOW_JOB_STEPS_SERVER_ERROR_RETRY_MS
    /\ pc' = "run_while"
    /\ UNCHANGED <<entry, ret, thrown, getRunIdFrame, rotFrame, scanFrame, rotCalls,
                   rotObs, scanCalls, roundSleeps, roundStartElapsed, scanObs>>
    /\ UNCHANGED etagVars
    /\ UNCHANGED mainVars

\* part_016:171-172: the sleep between rounds is over; back to the loop test
GetRunIdSleepDone ==
    /\ pc = "run_sleep"
    /\ outstanding' = outstanding - 1
    /\ now' = now + WORKFLOW_JOB_STEPS_RETRY_MS
    /\ pc' = "run_while"
    /\ UNCHANGED <<entry, ret, thrown, getRunIdFrame, rotFrame, scanFrame, rotCalls,
                   rotObs, scanCalls, roundSleeps, roundStartElapsed, scanObs>>
    /\ UNCHANGED etagVars
    /\ UNCHANGED mainVars

-----------------------------------------------------------------------------
\* retryOrTimeout (part_003:553-570)

\* the loop gives up one retry interval early
RetryLoopContinues_OneIntervalEarly ==
    rotElapsedTime + RETRY_OR_TIMEOUT_SLEEP_MS < rotTimeoutMs

\* part_003:559 while (elapsedTime < timeoutMs)
RetryLoopContinues == rotElapsedTime < rotTimeoutMs

\* part_003:559-560, 569: the loop test; either the producer is invoked or the
\* timeout failure is returned
RetryOrTimeoutWhile ==
    /\ pc = "rot_while"
    /\ IF RetryLoopContinues
       THEN /\ pc' = "rot_await"
            /\ retryFuncCalls' = retryFuncCalls + 1
            /\ outstanding' = outstanding + 1
            /\ UNCHANGED <<ret, fetchWorkflowRunIds, rotSleeps>>
            /\ UNCHANGED rotFrame
       ELSE /\ RetryOrTimeoutReturns(Failure("timeout"))
            /\ UNCHANGED outstanding
    /\ UNCHANGED <<entry, lastResponse, now, thrown, startTime, timeoutMs, attemptNo, elapsedTime, scanResult,
                   scanFrame, rotCalls, scanCalls, roundSleeps,
                   roundStartElapsed, scanObs>>
    /\ UNCHANGED etagVars
    /\ UNCHANGED mainVars

\* the test of response.length left out: whatever the producer resolved with
\* is returned
RetryFuncResolves_AcceptsEmpty ==
    /\ pc = "rot_await"
    /\ \E response \in ProducerLists, d \in CallDurations :
        /\ (Len(response) > 0 \/ d > 0) => retryFuncCalls <= MaxEmpty + 1
        /\ now' = now + d
        /\ lastResponse' = response
        /\ RetryOrTimeoutReturns(Success(response))
        /\ outstanding' = outstanding - 1
    /\ UNCHANGED <<entry, thrown, startTime, timeoutMs, attemptNo, elapsedTime, scanResult,
                   scanFrame, rotCalls, scanCalls,
                   roundSleeps, roundStartElapsed, scanObs>>
    /\ UNCHANGED etagVars
    /\ UNCHANGED mainVars

\* part_003:560-565: the producer resolved with an array
RetryFuncResolves ==
    /\ pc = "rot_await"
    /\ \E response \in ProducerLists, d \in CallDurations :
        /\ (Len(response) > 0 \/ d > 0) => retryFuncCalls <= MaxEmpty + 1
        /\ now' = now + d
        /\ lastResponse' = response
        /\ IF Len(response) > 0
           THEN /\ RetryOrTimeoutReturns(Success(response))
                /\ outstanding' = outstanding - 1
           ELSE /\ pc' = "rot_sleep"                \* await sleep(1000)
                /\ rotSleeps' = rotSleeps + 1
                /\ UNCHANGED <<ret, fetchWorkflowRunIds, rotFrame, retryFuncCalls,
                               outstanding>>
    /\ UNCHANGED <<entry, thrown, startTime, timeoutMs, attemptNo, elapsedTime, scanResult,
                   scanFrame, rotCalls, scanCalls,
                   roundSleeps, roundStartElapsed, scanObs>>
    /\ UNCHANGED etagVars
    /\ UNCHANGED mainVars

\* a rejection after which the producer is invoked once more before the error leaves
RetryFuncRejects_RetriesOnce ==
    /\ pc = "rot_await"
    /\ outstanding' = outstanding - 1
    /\ \E e \in ListingRejections, d \in CallDurations :
        /\ d > 0 => retryFuncCalls <= MaxEmpty + 1
        /\ now' = now + d
        /\ Throw(e)
    /\ retryFuncCalls' = retryFuncCalls + 1
    /\ UNCHANGED <<entry, ret, getRunIdFrame, rotFrame, scanFrame, rotCalls, rotSleeps,
                   lastResponse, scanCalls, roundSleeps, roundStartElapsed, scanObs>>
    /\ UNCHANGED etagVars
    /\ UNCHANGED mainVars

\* part_003:560: the producer rejected; retryOrTimeout and getRunId catch nothing
RetryFuncRejects ==
    /\ pc = "rot_await"
    /\ outstanding' = outstanding - 1
    /\ \E e \in ListingRejections, d \in CallDurations :
        /\ d > 0 => retryFuncCalls <= MaxEmpty + 1
        /\ now' = now + d
        /\ Throw(e)
    /\ UNCHANGED <<entry, ret, getRunIdFrame, rotFrame, scanFrame, rotCalls, rotObs,
                   scanCalls, roundSleeps, roundStartElapsed, scanObs>>
    /\ UNCHANGED etagVars
    /\ UNCHANGED mainVars

\* the elapsed time as it was before the sleep
RetryOrTimeoutSleepDone_SkipsFirstSleep ==
    /\ pc = "rot_sleep"
    /\ outstanding' = outstanding - 1
    /\ now' = now + RETRY_OR_TIMEOUT_SLEEP_MS
    /\ rotElapsedTime' = now - rotStartTime
    /\ pc' = "rot_while"
    /\ UNCHANGED <<entry, ret, thrown, getRunIdFrame, rotStartTime, rotTimeoutMs, scanFrame,
                   rotCalls, rotObs, scanCalls, roundSleeps,
                   roundStartElapsed, scanObs>>
    /\ UNCHANGED etagVars
    /\ UNCHANGED mainVars

\* part_003:565-566: the sleep is over; elapsedTime = Date.now() - startTime
RetryOrTimeoutSleepDone ==
    /\ pc = "rot_sleep"
    /\ outstanding' = outstanding - 1
    /\ now' = now + RETRY_OR_TIMEOUT_SLEEP_MS
    /\ rotElapsedTime' = now' - rotStartTime
    /\ pc' = "rot_while"
    /\ UNCHANGED <<entry, ret, thrown, getRunIdFrame, rotStartTime, rotTimeoutMs, scanFrame,
                   rotCalls, rotObs, scanCalls, roundSleeps,
                   roundStartElapsed, scanObs>>
    /\ UNCHANGED etagVars
    /\ UNCHANGED mainVars

-----------------------------------------------------------------------------
\* attemptToFindRunId (part_016:41-84)

\* the comparison with the retry maximum made inclusive
shouldRetryOrThrow_Inclusive(error, currentAttempts) ==
    CASE error.message = "Server Error" ->
            IF currentAttempts <= WORKFLOW_JOB_STEPS_SERVER_ERROR_RETRY_MAX
            THEN "true" ELSE "false"
      [] error.message = "Not Found" -> "false"
      [] OTHER -> "throw"

\* "Not Found" handled like "Server Error"
shouldRetryOrThrow_RetriesNotFound(error, currentAttempts) ==
    CASE error.message \in {"Server Error", "Not Found"} ->
            IF currentAttempts < WORKFLOW_JOB_STEPS_SERVER_ERROR_RETRY_MAX
            THEN "true" ELSE "false"
      [] OTHER -> "throw"

\* the default branch swallows the error instead of rethrowing it
shouldRetryOrThrow_SwallowsOther(error, currentAttempts) ==
    CASE error.message = "Server Error" ->
            IF currentAttempts < WORKFLOW_JOB_STEPS_SERVER_ERROR_RETRY_MAX
            THEN "true" ELSE "false"
      [] OTHER -> "false"

\* "Server Error" retried without a maximum
shouldRetryOrThrow_NoMaximum(error, currentAttempts) ==
    CASE error.message = "Server Error" -> "true"
      [] error.message = "Not Found" -> "false"
      [] OTHER -> "throw"

\* part_016:9-36.  "true" / "false" as the code returns them, "throw" when it
\* rethrows the error.
shouldRetryOrThrow(error, currentAttempts) ==
    CASE error.message = "Server Error" ->
            IF currentAttempts < WORKFLOW_JOB_STEPS_SERVER_ERROR_RETRY_MAX
            THEN "true" ELSE "false"
      [] error.message = "Not Found" -> "false"
      [] OTHER -> "throw"

LogEntry(op, out, ms) == [idx |-> currentWorkflowRunIndex, op |-> op, out |-> out, ms |-> ms]

\* a scan that walks the array from its end
CurrentId_FromEnd == workflowRunIds[Len(workflowRunIds) - currentWorkflowRunIndex]

\* part_016:48 const id = workflowRunIds[currentWorkflowRunIndex];
CurrentId == workflowRunIds[currentWorkflowRunIndex + 1]

\* an advance that leaves the attempt counter as it is
NextCandidate_KeepsCounter ==
    /\ UNCHANGED currentGetWorkflowRunJobStepsAttempt
    /\ currentWorkflowRunIndex' = currentWorkflowRunIndex + 1
    /\ pc' = "scan_while"

\* part_016:79-80
NextCandidate ==
    /\ currentGetWorkflowRunJobStepsAttempt' = 0
    /\ currentWorkflowRunIndex' = currentWorkflowRunIndex + 1
    /\ pc' = "scan_while"

\* the backoff sleep started and not awaited
Catch_UnawaitedSleep(error, logged) ==
    IF ~error.isError
    THEN /\ Throw(error)
         /\ candidateLog' = logged
         /\ outstanding' = outstanding - 1
         /\ UNCHANGED <<currentWorkflowRunIndex, currentGetWorkflowRunJobStepsAttempt>>
    ELSE LET shouldRetry == shouldRetryOrThrow(error, currentGetWorkflowRunJobStepsAttempt)
         IN  CASE shouldRetry = "throw" ->
                    /\ Throw(error)
                    /\ candidateLog' = logged
                    /\ outstanding' = outstanding - 1
                    /\ UNCHANGED <<currentWorkflowRunIndex,
                                   currentGetWorkflowRunJobStepsAttempt>>
               [] shouldRetry = "true" ->
                    /\ currentGetWorkflowRunJobStepsAttempt' =
                           currentGetWorkflowRunJobStepsAttempt + 1
                    /\ pc' = "scan_while"
                    /\ candidateLog' = Append(logged,
                           LogEntry("sleep", "", WORKFLOW_JOB_STEPS_SERVER_ERROR_RETRY_MS))
                    /\ UNCHANGED <<outstanding, currentWorkflowRunIndex, thrown>>
               [] OTHER ->
                    /\ NextCandidate
                    /\ candidateLog' = logged
                    /\ outstanding' = outstanding - 1
                    /\ UNCHANGED thrown

\* the retry without the backoff sleep
Catch_NoBackoff(error, logged) ==
    IF ~error.isError
    THEN /\ Throw(error)
         /\ candidateLog' = logged
         /\ outstanding' = outstanding - 1
         /\ UNCHANGED <<currentWorkflowRunIndex, currentGetWorkflowRunJobStepsAttempt>>
    ELSE LET shouldRetry == shouldRetryOrThrow(error, currentGetWorkflowRunJobStepsAttempt)
         IN  CASE shouldRetry = "throw" ->
                    /\ Throw(error)
                    /\ candidateLog' = logged
                    /\ outstanding' = outstanding - 1
                    /\ UNCHANGED <<currentWorkflowRunIndex,
                                   currentGetWorkflowRunJobStepsAttempt>>
               [] shouldRetry = "true" ->
                    /\ currentGetWorkflowRunJobStepsAttempt' =
                           currentGetWorkflowRunJobStepsAttempt + 1
                    /\ pc' = "scan_while"
                    /\ candidateLog' = logged
                    /\ outstanding' = outstanding - 1
                    /\ UNCHANGED <<currentWorkflowRunIndex, thrown>>
               [] OTHER ->
                    /\ NextCandidate
                    /\ candidateLog' = logged
                    /\ outstanding' = outstanding - 1
                    /\ UNCHANGED thrown

\* part_016:62-77: the catch block around the step fetch and the URL lookup
Catch(error, logged) ==
    IF ~error.isError
    THEN /\ Throw(error)
         /\ candidateLog' = logged
         /\ outstanding' = outstanding - 1
         /\ UNCHANGED <<currentWorkflowRunIndex, currentGetWorkflowRunJobStepsAttempt>>
    ELSE LET shouldRetry == shouldRetryOrThrow(error, currentGetWorkflowRunJobStepsAttempt)
         IN  CASE shouldRetry = "throw" ->
                    /\ Throw(error)
                    /\ candidateLog' = logged
                    /\ outstanding' = outstanding - 1
                    /\ UNCHANGED <<currentWorkflowRunIndex,
                                   currentGetWorkflowRunJobStepsAttempt>>
               [] shouldRetry = "true" ->
                    /\ currentGetWorkflowRunJobStepsAttempt' =
                           currentGetWorkflowRunJobStepsAttempt + 1
                    /\ pc' = "scan_sleep"   \* await sleep(..SERVER_ERROR_RETRY_MS)
                    /\ UNCHANGED outstanding
                    /\ candidateLog' = Append(logged,
                           LogEntry("sleep", "", WORKFLOW_JOB_STEPS_SERVER_ERROR_RETRY_MS))
                    /\ UNCHANGED <<currentWorkflowRunIndex, thrown>>
               [] OTHER ->
                    /\ NextCandidate
                    /\ candidateLog' = logged
                    /\ outstanding' = outstanding - 1
                    /\ UNCHANGED thrown

\* an undefined entry skipped (`continue` with the index advanced) instead of
\* ending the scan
AttemptToFindRunIdWhile_SkipsUndefined ==
    /\ pc = "scan_while"
    /\ IF currentWorkflowRunIndex < Len(workflowRunIds)
       THEN IF CurrentId # Undefined
            THEN /\ pc' = "scan_steps"
                 /\ stepFetches' = [stepFetches EXCEPT ![currentWorkflowRunIndex + 1] = @ + 1]
                 /\ candidateLog' = SelectSeq(candidateLog,
                                              LAMBDA e : e.idx = currentWorkflowRunIndex)
                 /\ outstanding' = outstanding + 1
                 /\ UNCHANGED <<ret, scanResult, scanFrame>>
            ELSE /\ currentWorkflowRunIndex' = currentWorkflowRunIndex + 1
                 /\ UNCHANGED <<pc, workflowRunIds, currentGetWorkflowRunJobStepsAttempt,
                                stepFetches, candidateLog, outstanding, ret, scanResult>>
       ELSE /\ AttemptToFindRunIdReturns(Failure("timeout"))
            /\ UNCHANGED <<stepFetches, candidateLog, outstanding, scanFrame>>
    /\ UNCHANGED <<entry, now, thrown, startTime, timeoutMs, attemptNo, elapsedTime,
                   fetchWorkflowRunIds, rotFrame, rotCalls, rotObs,
                   scanCalls, roundSleeps, roundStartElapsed, anyRejected,
                   onlyServerErrors>>
    /\ UNCHANGED etagVars
    /\ UNCHANGED mainVars

\* part_016:47-54, 83: the loop test and the undefined check; either the step
\* fetch of the current candidate is issued or the failure is returned
AttemptToFindRunIdWhile ==
    /\ pc = "scan_while"
    /\ IF /\ currentWorkflowRunIndex < Len(workflowRunIds)
          /\ CurrentId # Undefined
       THEN /\ pc' = "scan_steps"
            /\ stepFetches' = [stepFetches EXCEPT ![currentWorkflowRunIndex + 1] = @ + 1]
            /\ candidateLog' = SelectSeq(candidateLog, LAMBDA e : e.idx = currentWorkflowRunIndex)
            /\ outstanding' = outstanding + 1
            /\ UNCHANGED <<ret, scanResult>>
       ELSE /\ AttemptToFindRunIdReturns(Failure("timeout"))
            /\ UNCHANGED <<stepFetches, candidateLog, outstanding>>
    /\ UNCHANGED <<entry, now, thrown, startTime, timeoutMs, attemptNo, elapsedTime,
                   fetchWorkflowRunIds, rotFrame, scanFrame, rotCalls, rotObs,
                   scanCalls, roundSleeps, roundStartElapsed, anyRejected,
                   onlyServerErrors>>
    /\ UNCHANGED etagVars
    /\ UNCHANGED mainVars

\* part_016:54-61, 79-80: the step fetch resolved
StepsResolve ==
    /\ pc = "scan_steps"
    /\ \E steps \in StepLists, d \in StepDurations :
        /\ now' = now + d
        /\ IF AnyStepMatches(steps)
           THEN /\ pc' = "scan_url"                 \* await api.fetchWorkflowRunUrl(id)
                /\ candidateLog' = Append(candidateLog, LogEntry("steps", "match", 0))
                /\ UNCHANGED <<currentWorkflowRunIndex, currentGetWorkflowRunJobStepsAttempt,
                               outstanding>>
           ELSE /\ NextCandidate
                /\ candidateLog' = Append(candidateLog, LogEntry("steps", "no match", 0))
                /\ outstanding' = outstanding - 1
    /\ onlyServerErrors' = FALSE
    /\ UNCHANGED <<entry, ret, thrown, getRunIdFrame, rotFrame, workflowRunIds, rotCalls,
                   rotObs, scanCalls, roundSleeps, roundStartElapsed, stepFetches,
                   anyRejected>>
    /\ UNCHANGED etagVars
    /\ UNCHANGED mainVars

\* part_016:54, 62-77: the step fetch rejected
StepsReject ==
    /\ pc = "scan_steps"
    /\ \E e \in Rejections, d \in StepDurations :
        /\ now' = now + d
        /\ Catch(e, Append(candidateLog, LogEntry("steps", e.message, 0)))
        /\ onlyServerErrors' = (onlyServerErrors /\ e = ErrServer)
    /\ anyRejected' = TRUE
    /\ UNCHANGED <<entry, ret, getRunIdFrame, rotFrame, workflowRunIds, rotCalls,
                   rotObs, scanCalls, roundSleeps, roundStartElapsed, stepFetches>>
    /\ UNCHANGED etagVars
    /\ UNCHANGED mainVars

\* a Success that names the first candidate of the list
UrlResolves_NamesFirstCandidate ==
    /\ pc = "scan_url"
    /\ outstanding' = outstanding - 1
    /\ \E d \in StepDurations :
        /\ now' = now + d
        /\ candidateLog' = Append(candidateLog, LogEntry("url", "resolved", 0))
        /\ AttemptToFindRunIdReturns(Success([id |-> workflowRunIds[1],
                                              url |-> UrlOf(CurrentId)]))
    /\ UNCHANGED <<entry, thrown, startTime, timeoutMs, attemptNo, elapsedTime,
                   fetchWorkflowRunIds, rotFrame, scanFrame, rotCalls, rotObs,
                   scanCalls, roundSleeps, roundStartElapsed, stepFetches, anyRejected,
                   onlyServerErrors>>
    /\ UNCHANGED etagVars
    /\ UNCHANGED mainVars

\* part_016:58-59: the URL lookup resolved
UrlResolves ==
    /\ pc = "scan_url"
    /\ outstanding' = outstanding - 1
    /\ \E d \in StepDurations :
        /\ now' = now + d
        /\ candidateLog' = Append(candidateLog, LogEntry("url", "resolved", 0))
        /\ AttemptToFindRunIdReturns(Success([id |-> CurrentId, url |-> UrlOf(CurrentId)]))
    /\ UNCHANGED <<entry, thrown, startTime, timeoutMs, attemptNo, elapsedTime,
                   fetchWorkflowRunIds, rotFrame, scanFrame, rotCalls, rotObs,
                   scanCalls, roundSleeps, roundStartElapsed, stepFetches, anyRejected,
                   onlyServerErrors>>
    /\ UNCHANGED etagVars
    /\ UNCHANGED mainVars

\* part_016:58, 62-77: the URL lookup rejected, inside the same try block
UrlRejects ==
    /\ pc = "scan_url"
    /\ \E e \in Rejections, d \in StepDurations :
        /\ now' = now + d
        /\ Catch(e, Append(candidateLog, LogEntry("url", e.message, 0)))
    /\ anyRejected' = TRUE
    /\ UNCHANGED <<entry, ret, getRunIdFrame, rotFrame, workflowRunIds, rotCalls,
                   rotObs, scanCalls, roundSleeps, roundStartElapsed, stepFetches,
                   onlyServerErrors>>
    /\ UNCHANGED etagVars
    /\ UNCHANGED mainVars

\* part_016:73-75: the backoff is over; continue with the same index
BackoffDone ==
    /\ pc = "scan_sleep"
    /\ outstanding' = outstanding - 1
    /\ now' = now + WORKFLOW_JOB_STEPS_SERVER_ERROR_RETRY_MS
    /\ pc' = "scan_while"
    /\ UNCHANGED <<entry, ret, thrown, getRunIdFrame, rotFrame, scanFrame, rotCalls,
                   rotObs, scanCalls, roundSleeps, roundStartElapsed, scanObs>>
    /\ UNCHANGED etagVars
    /\ UNCHANGED mainVars

-----------------------------------------------------------------------------
Next ==
    \/ CallGetRunId
    \/ CallRetryOrTimeout
    \/ CallAttemptToFindRunId
    \/ GetRunIdWhile
    \/ GetRunIdAfterFetch
    \/ GetRunIdAfterScan
    \/ GetRunIdSleepDone
    \/ RetryOrTimeoutWhile
    \/ RetryFuncResolves
    \/ RetryFuncRejects
    \/ RetryOrTimeoutSleepDone
    \/ AttemptToFindRunIdWhile
    \/ StepsResolve
    \/ StepsReject
    \/ UrlResolves
    \/ UrlRejects
    \/ BackoffDone

Spec == Init /\ [][Next]_vars

-----------------------------------------------------------------------------
\* attemptToFindRunId on its own, every remote call settling and every sleep
\* ending: the scan's actions under weak fairness

NextScan ==
    \/ CallAttemptToFindRunId
    \/ AttemptToFindRunIdWhile
    \/ StepsResolve
    \/ StepsReject
    \/ UrlResolves
    \/ UrlRejects
    \/ BackoffDone

SpecScan == Init /\ [][NextScan]_vars /\ WF_vars(NextScan)

-----------------------------------------------------------------------------
\* withEtag (etags.ts).  It suspends once, at `await requester(paramsWithEtag)`.

\* lines 19-28: lookup, the request's headers, the requester is invoked
WithEtagStart(caller) ==
    /\ pending[caller] = Absent
    /\ \E request \in Requests :
        LET found == getEtag(request.endpoint, request.params)
            etag == IF found = Absent THEN Absent ELSE Present(found[1].etag)
            savedResponse ==
                IF found = Absent THEN Absent ELSE Present(found[1].savedResponse)
            \* no caller passes headers of its own in params
            paramsWithEtag ==
                [params |-> request.params,
                 headers |-> IF Truthy(etag) THEN [IfNoneMatch |-> etag[1]] ELSE NoHeaders]
        IN pending' = [pending EXCEPT ![caller] =
                          Present([endpoint |-> request.endpoint,
                                   params |-> request.params,
                                   etag |-> etag,
                                   savedResponse |-> savedResponse,
                                   paramsWithEtag |-> paramsWithEtag,
                                   validatorAtCall |-> validators[request]])]
    /\ UNCHANGED <<etagStore, lastCall, validators>>
    /\ UNCHANGED protocolVars
    /\ UNCHANGED mainVars

\* a substitution that does not compare the validators
WithEtagHit_IgnoresValidator(call, response) ==
    /\ response.status = 304
    /\ call.savedResponse # Absent

\* lines 30-37: the stored response stands in for the fresh one
WithEtagHit(call, response) ==
    /\ response.status = 304
    /\ Truthy(call.etag)
    /\ call.etag = extractEtag(response)
    /\ call.savedResponse # Absent

\* a return that reads the stored response from the Map when the response arrives
RequesterResolves_ReadsStoreAtReturn(caller) ==
    /\ pending[caller] # Absent
    /\ \E response \in Responses :
        LET call == pending[caller][1]
            hit == WithEtagHit(call, response)
            writes == ~hit /\ Truthy(extractEtag(response))
            request == [endpoint |-> call.endpoint, params |-> call.params]
            key == JSONStringify(call.endpoint, call.params)
        IN /\ etagStore' = IF hit THEN etagStore
                           ELSE rememberEtag(call.endpoint, call.params, response)
           /\ validators' = IF writes
                            THEN [validators EXCEPT ![request] = extractEtag(response)]
                            ELSE validators
           /\ lastCall' = Present([response |-> response,
                                   returned |-> IF hit /\ key \in DOMAIN etagStore
                                                THEN etagStore[key].savedResponse
                                                ELSE response])
           /\ pending' = [pending EXCEPT ![caller] = Absent]
    /\ UNCHANGED protocolVars
    /\ UNCHANGED mainVars

\* lines 28-40: the requester resolves; the comparison, the update, the return
RequesterResolves(caller) ==
    /\ pending[caller] # Absent
    /\ \E response \in Responses :
        LET call == pending[caller][1]
            hit == WithEtagHit(call, response)
            writes == ~hit /\ Truthy(extractEtag(response))
            request == [endpoint |-> call.endpoint, params |-> call.params]
        IN /\ etagStore' = IF hit THEN etagStore
                           ELSE rememberEtag(call.endpoint, call.params, response)
           /\ validators' = IF writes
                            THEN [validators EXCEPT ![request] = extractEtag(response)]
                            ELSE validators
           /\ lastCall' = Present([response |-> response,
                                   returned |-> IF hit THEN call.savedResponse[1]
                                                ELSE response])
           /\ pending' = [pending EXCEPT ![caller] = Absent]
    /\ UNCHANGED protocolVars
    /\ UNCHANGED mainVars

\* line 28: the requester rejects and withEtag rejects with it, returning nothing
RequesterRejects(caller) ==
    /\ pending[caller] # Absent
    /\ pending' = [pending EXCEPT ![caller] = Absent]
    /\ lastCall' = Absent
    /\ UNCHANGED <<etagStore, validators>>
    /\ UNCHANGED protocolVars
    /\ UNCHANGED mainVars

\* lines 66-68
clearEtags ==
    /\ etagStore' = EmptyStore
    /\ validators' = NoValidators
    /\ UNCHANGED <<pending, lastCall>>
    /\ UNCHANGED protocolVars
    /\ UNCHANGED mainVars

NextEtag ==
    \/ \E caller \in Callers : WithEtagStart(caller)
    \/ \E caller \in Callers : RequesterResolves(caller)
    \/ \E caller \in Callers : RequesterRejects(caller)
    \/ clearEtags

SpecEtag == Init /\ [][NextEtag]_vars

-----------------------------------------------------------------------------
\* main (part_008), with getWorkflowId (part_016:90-102), fetchWorkflowId
\* (part_003:332-394) and dispatchWorkflow (part_003:290-331) in full and
\* getRunId by its outcomes: a result or an exception.

otherVars == <<protocolVars, etagVars>>

\* part_008:45-58: the catch block of main
MainCatch(error) ==
    /\ mainPc' = "done"
    /\ failed' = Append(failed, FailureMessage(error))
    /\ UNCHANGED outputs

\* the call made latest is over
SetOutcome(outcome) == [mainSteps EXCEPT ![Len(mainSteps)].outcome = outcome]

\* part_008:23: await api.dispatchWorkflow(config.distinctId)
CallDispatch(log) ==
    /\ mainPc' = "dispatch"
    /\ mainSteps' = Append(log, Step("createWorkflowDispatch", "pending"))

\* a resolution that asks the remote side whatever the reference is
getWorkflowIdFetches_Always(workflow) == TRUE

\* part_016:93: typeof workflow === "number"
getWorkflowIdFetches(workflow) == ~workflow.isNumber

\* a start that dispatches before the workflow id is resolved
MainStart_DispatchesFirst ==
    /\ mainPc = "idle"
    /\ \E c \in Configs :
        /\ config' = c
        /\ workflowId' = IF c.workflow.isNumber THEN Present(c.workflow.number) ELSE Absent
        /\ CallDispatch(mainSteps)
    /\ UNCHANGED <<workflowPages, branch, listRequest, outputs, failed>>
    /\ UNCHANGED otherVars

\* part_008:15-23, part_016:90-99: getConfig, getWorkflowId up to its first await
MainStart ==
    /\ mainPc = "idle"
    /\ \E c \in Configs :
        /\ config' = c
        /\ IF getWorkflowIdFetches(c.workflow)
           THEN /\ workflowId' = Absent
                /\ mainPc' = "resolve"
                /\ mainSteps' = Append(mainSteps, Step("listRepoWorkflows", "pending"))
           ELSE /\ workflowId' = Present(c.workflow.number)
                /\ CallDispatch(mainSteps)
    /\ UNCHANGED <<workflowPages, branch, listRequest, outputs, failed>>
    /\ UNCHANGED otherVars

\* part_008:17: getConfig throws
MainConfigThrows ==
    /\ mainPc = "idle"
    /\ MainCatch(ErrConfig)
    /\ UNCHANGED <<config, workflowPages, workflowId, branch, mainSteps, listRequest>>
    /\ UNCHANGED otherVars

\* part_003:351-372: the iterator yields a page
WorkflowPageResolves ==
    /\ mainPc = "resolve"
    /\ \E page \in WorkflowPages :
        /\ page.hasNext => Len(workflowPages) + 1 < MaxPages
        /\ workflowPages' = Append(workflowPages, page)
        /\ IF page.status # 200
           THEN /\ MainCatch(ErrWorkflowsStatus)
                /\ mainSteps' = SetOutcome("threw")
                /\ UNCHANGED workflowId
           ELSE LET found == FindWorkflow(config.workflow.text, page.data)
                IN IF found # Absent
                   THEN /\ workflowId' = found
                        /\ CallDispatch(SetOutcome("ok"))
                        /\ UNCHANGED <<outputs, failed>>
                   ELSE IF page.hasNext
                   THEN /\ mainSteps' = Append(SetOutcome("ok"),
                                               Step("listRepoWorkflows", "pending"))
                        /\ UNCHANGED <<mainPc, workflowId, outputs, failed>>
                   ELSE /\ MainCatch(ErrNoWorkflow)
                        /\ mainSteps' = SetOutcome("threw")
                        /\ UNCHANGED workflowId
    /\ UNCHANGED <<config, branch, listRequest>>
    /\ UNCHANGED otherVars

\* part_003:351: the iterator rejects
WorkflowPageRejects ==
    /\ mainPc = "resolve"
    /\ \E e \in Rejections : MainCatch(e)
    /\ mainSteps' = SetOutcome("threw")
    /\ UNCHANGED <<config, workflowPages, workflowId, branch, listRequest>>
    /\ UNCHANGED otherVars

\* part_003:305
DispatchSucceeded(status) == status = 204 \/ status = 200

\* part_003:293-310, part_008:25-30: the dispatch resolved; getBranchName; getRunId
DispatchResolves ==
    /\ mainPc = "dispatch"
    /\ \E status \in {204, 200, 202} :
        IF DispatchSucceeded(status)
        THEN /\ branch' = Present(getBranchName(config.ref))
             /\ mainPc' = "identify"
             /\ mainSteps' = Append(SetOutcome("ok"), Step("getRunId", "pending"))
             /\ UNCHANGED <<outputs, failed>>
        ELSE /\ MainCatch(ErrDispatchStatus)
             /\ mainSteps' = SetOutcome("threw")
             /\ UNCHANGED branch
    /\ UNCHANGED <<config, workflowPages, workflowId, listRequest>>
    /\ UNCHANGED otherVars

\* part_003:293: the dispatch rejected
DispatchRejects ==
    /\ mainPc = "dispatch"
    /\ \E e \in Rejections : MainCatch(e)
    /\ mainSteps' = SetOutcome("threw")
    /\ UNCHANGED <<config, workflowPages, workflowId, branch, listRequest>>
    /\ UNCHANGED otherVars

\* part_016:148-149, part_003:430-464: a round of getRunId lists the candidates
GetRunIdLists ==
    /\ mainPc = "identify"
    /\ listRequest = Absent
    /\ listRequest' = Present(ListWorkflowRunsRequest(branch[1]))
    /\ UNCHANGED <<mainPc, config, workflowPages, workflowId, branch, mainSteps,
                   outputs, failed>>
    /\ UNCHANGED otherVars

\* what getRunId may return
RunResults ==
    {Failure("timeout")} \cup {Success([id |-> i, url |-> UrlOf(i)]) : i \in RunIds}

\* outputs set whatever getRunId returned
GetRunIdReturns_AlwaysSetsOutputs ==
    /\ mainPc = "identify"
    /\ \E r \in RunResults :
        /\ outputs' = [run_id |-> 101, run_url |-> UrlOf(101)]
        /\ failed' = IF r.success THEN failed ELSE Append(failed, TimeoutMessage)
        /\ mainSteps' = SetOutcome(IF r.success THEN "success" ELSE "timeout")
    /\ mainPc' = "done"
    /\ UNCHANGED <<config, workflowPages, workflowId, branch, listRequest>>
    /\ UNCHANGED otherVars

\* part_008:30-44, part_016:104-117: getRunId returned
GetRunIdReturns ==
    /\ mainPc = "identify"
    /\ \E r \in RunResults :
        IF r.success
        THEN /\ outputs' = [run_id |-> r.value.id, run_url |-> r.value.url]
             /\ mainSteps' = SetOutcome("success")
             /\ UNCHANGED failed
        ELSE /\ failed' = Append(failed, TimeoutMessage)
             /\ mainSteps' = SetOutcome("timeout")
             /\ UNCHANGED outputs
    /\ mainPc' = "done"
    /\ UNCHANGED <<config, workflowPages, workflowId, branch, listRequest>>
    /\ UNCHANGED otherVars

\* part_008:30, 45-58: getRunId threw
GetRunIdThrows ==
    /\ mainPc = "identify"
    /\ \E e \in Rejections : MainCatch(e)
    /\ mainSteps' = SetOutcome("threw")
    /\ UNCHANGED <<config, workflowPages, workflowId, branch, listRequest>>
    /\ UNCHANGED otherVars

NextMain ==
    \/ MainStart
    \/ MainConfigThrows
    \/ WorkflowPageResolves
    \/ WorkflowPageRejects
    \/ DispatchResolves
    \/ DispatchRejects
    \/ GetRunIdLists
    \/ GetRunIdReturns
    \/ GetRunIdThrows

SpecMain == Init /\ [][NextMain]_vars

-----------------------------------------------------------------------------
\* Verification

\* what the latest attemptToFindRunId returned (NoResult: it has not returned)
ScanOutcome == IF entry = "attemptToFindRunId" THEN ret ELSE scanResult
ScanReturned == ScanOutcome.reason # "none"

\* the scan is at candidate index i and has so far seen these events for it
AtCandidate(i, events) ==
    /\ currentWorkflowRunIndex = i
    /\ Len(candidateLog) = Len(events)
    /\ \A k \in 1..Len(events) :
          /\ candidateLog[k].idx = i
          /\ candidateLog[k].op = events[k][1]
          /\ candidateLog[k].out = events[k][2]

IsSuccessFor(r, id) == r.success /\ r.value.id = id /\ r.value.url = UrlOf(id)

\* C1's case: round 1 fetched [a, b], the fetch for a resolved without a match,
\* the fetch for b resolved with a match, and the URL lookup for b resolved
C1_Case ==
    /\ entry = "getRunId"
    /\ attemptNo = 1
    /\ Len(workflowRunIds) = 2
    /\ ~anyRejected
    /\ AtCandidate(1, << <<"steps", "match">>, <<"url", "resolved">> >>)

\* C1: when the first candidate fetch returns [a, b], a has no matching step
\* and b has one, getRunId returns Success{b, URL of b} in its first round: one
\* retryOrTimeout call, no sleep between rounds, one step fetch each for a and
\* b and none after.
C1_OneRoundSuccess ==
    C1_Case =>
        /\ rotCalls = 1
        /\ scanCalls = 1
        /\ roundSleeps = 0
        /\ stepFetches = <<1, 1>>
        /\ \/ pc = "run_afterScan" /\ IsSuccessFor(scanResult, workflowRunIds[2])
           \/ pc = "done" /\ IsSuccessFor(ret, workflowRunIds[2])

C1_Witness ==
    /\ C1_Case
    /\ pc = "done"
    /\ workflowRunIds = <<102, 101>>
    /\ ret.success /\ ret.value.id = 101

\* C2: when no remote call of a scan rejected and the scan returned success,
\* the id returned is the candidate at the index the scan stands at, every
\* candidate before it was fetched exactly once (without a match), the
\* matching candidate once, and no candidate after it at all.
C2_FirstMatchWins ==
    (ScanReturned /\ ScanOutcome.success /\ ~anyRejected) =>
        /\ currentWorkflowRunIndex < Len(workflowRunIds)
        /\ ScanOutcome.value.id = workflowRunIds[currentWorkflowRunIndex + 1]
        /\ \A j \in 1..Len(workflowRunIds) :
              stepFetches[j] = IF j <= currentWorkflowRunIndex + 1 THEN 1 ELSE 0

C2_Witness ==
    /\ entry = "attemptToFindRunId"
    /\ pc = "done"
    /\ ret.success
    /\ ~anyRejected
    /\ workflowRunIds = <<101, 102>>
    /\ ret.value.id = 102

\* outcomes of the calls of one kind in the log of the latest candidate
Outcomes(op) ==
    LET calls == SelectSeq(candidateLog, LAMBDA e : e.op = op)
    IN  [k \in 1..Len(calls) |-> calls[k].out]

AllDefined == \A j \in 1..Len(workflowRunIds) : workflowRunIds[j] # Undefined

\* C3: when retryOrTimeout reports a timeout inside getRunId, getRunId returns
\* Timeout at once: the state is either the check of the fetch result or the
\* return itself, the round has neither a scan, nor a step fetch, nor a URL
\* lookup, nor an inter-round sleep, and no further round is started.
C3_FetchTimedOut ==
    /\ entry = "getRunId"
    /\ ~fetchWorkflowRunIds.success
    /\ fetchWorkflowRunIds.reason = "timeout"

C3_FetchTimeoutEndsRun ==
    C3_FetchTimedOut =>
        /\ pc \in {"run_afterFetch", "done"}
        /\ pc = "done" => (~ret.success /\ ret.reason = "timeout")
        /\ rotCalls = attemptNo
        /\ scanCalls = attemptNo - 1
        /\ roundSleeps = attemptNo - 1
        /\ stepFetches = <<>>
        /\ candidateLog = <<>>

C3_Witness ==
    /\ C3_FetchTimedOut
    /\ pc = "done"
    /\ ret.reason = "timeout"
    /\ attemptNo = 2
    /\ now - startTime >= WORKFLOW_FETCH_TIMEOUT_MS

\* C4 as stated: whenever a round has begun, the elapsed time at the moment
\* it began was strictly less than the overall timeout.
C4_RoundBeginsBeforeDeadline ==
    (entry = "getRunId" /\ attemptNo >= 1) => roundStartElapsed < timeoutMs

\* C4 amended: the loop test reads the elapsed time as it was last measured,
\* at entry for the first round and at the start of the preceding round for
\* every later one; a round begins only if that measurement is strictly less
\* than the overall timeout.
C4_RoundBeginsOnStaleElapsed ==
    [][attemptNo' = attemptNo + 1 =>
          (IF attemptNo = 0 THEN now - startTime ELSE roundStartElapsed) < timeoutMs]_vars

C4_Witness ==
    /\ entry = "getRunId"
    /\ pc = "rot_while"
    /\ attemptNo = 2
    /\ timeoutMs = 5000
    /\ roundStartElapsed = 5000

\* the step fetch of the current candidate failed with "Server Error" exactly
\* R times and then resolved with a matching step; the URL lookup did not fail
C5_Case(R) ==
    /\ Outcomes("steps") = [k \in 1..(R + 1) |-> IF k <= R THEN "Server Error" ELSE "match"]
    /\ \A k \in 1..Len(Outcomes("url")) : Outcomes("url")[k] = "resolved"

\* C5: R "Server Error" failures (R below the maximum) followed by a match on
\* the same candidate: that candidate was fetched R + 1 times after R retries,
\* every failed fetch is followed by one backoff sleep of the configured
\* length, the index has not moved, and the scan returns success for it.
C5_ServerErrorRetriesSameCandidate ==
    \A R \in 0..(WORKFLOW_JOB_STEPS_SERVER_ERROR_RETRY_MAX - 1) :
        C5_Case(R) =>
            /\ \A k \in 1..Len(candidateLog) : candidateLog[k].idx = currentWorkflowRunIndex
            /\ \A k \in 1..R :
                  /\ candidateLog[2 * k - 1].op = "steps"
                  /\ candidateLog[2 * k].op = "sleep"
                  /\ candidateLog[2 * k].ms = WORKFLOW_JOB_STEPS_SERVER_ERROR_RETRY_MS
            /\ candidateLog[2 * R + 1].op = "steps"
            /\ Len(candidateLog) = 2 * R + 1 + Len(Outcomes("url"))
            /\ Len(Outcomes("url")) <= 1
            /\ currentGetWorkflowRunJobStepsAttempt = R
            /\ stepFetches[currentWorkflowRunIndex + 1] = R + 1
            /\ IF Len(Outcomes("url")) = 0
               THEN pc = "scan_url"
               ELSE ScanReturned /\ IsSuccessFor(ScanOutcome, CurrentId)

C5_Witness ==
    /\ entry = "attemptToFindRunId"
    /\ pc = "done"
    /\ C5_Case(2)
    /\ workflowRunIds = <<101, 102>>
    /\ currentWorkflowRunIndex = 1
    /\ stepFetches = <<1, 3>>
    /\ ret.success /\ ret.value.id = 102

\* C6: when every step fetch fails with "Server Error", no candidate is
\* fetched more than maximum + 1 times, nothing is thrown, and the scan returns
\* a failure after it fetched every candidate exactly maximum + 1 times.
C6_ServerErrorsExhaustEveryCandidate ==
    (entry # "retryOrTimeout" /\ scanCalls > 0 /\ onlyServerErrors /\ AllDefined) =>
        /\ \A j \in 1..Len(stepFetches) :
              stepFetches[j] <= WORKFLOW_JOB_STEPS_SERVER_ERROR_RETRY_MAX + 1
        /\ (pc = "thrown") => (candidateLog = <<>>)
        /\ ScanReturned =>
              /\ ~ScanOutcome.success
              /\ currentWorkflowRunIndex = Len(workflowRunIds)
              /\ \A j \in 1..Len(stepFetches) :
                    stepFetches[j] = WORKFLOW_JOB_STEPS_SERVER_ERROR_RETRY_MAX + 1

C6_Witness ==
    /\ entry = "attemptToFindRunId"
    /\ pc = "done"
    /\ onlyServerErrors
    /\ workflowRunIds = <<101, 102>>
    /\ stepFetches = <<4, 4>>
    /\ ~ret.success

\* C7: a step fetch that failed with "Not Found" is the last thing done for
\* its candidate: no sleep and no further fetch of it follows, nothing is
\* thrown, the retry counter is reset and the index stands on the next
\* candidate (or the scan has returned); a candidate whose first fetch failed
\* so was fetched exactly once.
C7_NotFoundAdvancesWithoutRetry ==
    \A k \in 1..Len(candidateLog) :
        (candidateLog[k].op = "steps" /\ candidateLog[k].out = "Not Found") =>
            /\ k = Len(candidateLog)
            /\ pc \in {"scan_while", "run_afterScan", "done"}
            /\ thrown = NothingThrown
            /\ currentWorkflowRunIndex = candidateLog[k].idx + 1
            /\ currentGetWorkflowRunJobStepsAttempt = 0
            /\ stepFetches[candidateLog[k].idx + 1] = Len(Outcomes("steps"))
            /\ (k = 1) => (stepFetches[candidateLog[k].idx + 1] = 1)

C7_Witness ==
    /\ entry = "attemptToFindRunId"
    /\ pc = "scan_while"
    /\ workflowRunIds = <<101, 102>>
    /\ Outcomes("steps") = <<"Not Found">>
    /\ Len(candidateLog) = 1
    /\ currentWorkflowRunIndex = 1
    /\ stepFetches = <<1, 0>>

\* C8: a step fetch that failed with anything but "Server Error" or "Not Found"
\* (a value that is no Error included) is the last thing the scan did: the
\* failure itself has left attemptToFindRunId, no fetch, sleep or URL lookup
\* follows it and no result is returned.
C8_OtherFailuresPropagate ==
    \A k \in 1..Len(candidateLog) :
        (/\ candidateLog[k].op = "steps"
         /\ candidateLog[k].out \notin {"Server Error", "Not Found", "match", "no match"}) =>
            /\ k = Len(candidateLog)
            /\ pc = "thrown"
            /\ thrown.message = candidateLog[k].out
            /\ thrown \in {ErrOther, NonError}
            /\ ~ScanReturned
            /\ ret.reason = "none"
            /\ currentWorkflowRunIndex = candidateLog[k].idx
            /\ stepFetches[currentWorkflowRunIndex + 1] = Len(Outcomes("steps"))

C8_Witness ==
    /\ entry = "attemptToFindRunId"
    /\ pc = "thrown"
    /\ thrown = NonError
    /\ workflowRunIds = <<101, 102>>
    /\ currentWorkflowRunIndex = 0
    /\ Outcomes("steps") = <<"Server Error", "thrown">>
    /\ stepFetches = <<2, 0>>

\* C9 as stated: a scan of an empty list, or of a list of undefined entries
\* only, makes no remote call and returns the failure "invalid input".
C9_EmptyListIsInvalidInput ==
    (/\ entry = "attemptToFindRunId"
     /\ pc = "done"
     /\ \A j \in 1..Len(workflowRunIds) : workflowRunIds[j] = Undefined) =>
        /\ \A j \in 1..Len(stepFetches) : stepFetches[j] = 0
        /\ candidateLog = <<>>
        /\ ~ret.success
        /\ ret.reason = "invalid input"

\* C10 as stated: every call of retryOrTimeout that has returned invoked the
\* producer at least once, whatever the budget.
C10_ProducerInvokedAtLeastOnce ==
    (entry = "retryOrTimeout" /\ pc = "done") => retryFuncCalls >= 1

\* C11: retryOrTimeout leaves its loop with the timeout failure only when the
\* time elapsed since it started has reached the budget; called with a producer
\* that only ever resolved with an empty array it returns that failure as a
\* value, nothing is thrown, and every producer call was followed by a sleep.
C11_TimeoutOnlyAfterBudget ==
    /\ (pc = "rot_while" /\ ~RetryLoopContinues) => now - rotStartTime >= rotTimeoutMs
    /\ (entry = "retryOrTimeout" /\ pc = "done" /\ ~ret.success) =>
          /\ ret.reason = "timeout"
          /\ thrown = NothingThrown
          /\ lastResponse = <<>>
          /\ rotSleeps = retryFuncCalls
          /\ now - rotStartTime >= rotTimeoutMs

C11_Witness ==
    /\ entry = "retryOrTimeout"
    /\ pc = "done"
    /\ ~ret.success
    /\ rotTimeoutMs = 2500
    /\ retryFuncCalls = 3
    /\ now - rotStartTime = 3000

\* C12: retryOrTimeout returns success with exactly the array the producer
\* resolved with latest, which is the first non-empty one: k empty results
\* before it mean k + 1 producer calls and k sleeps of the fixed interval; and
\* after k empty results that took no time the loop goes on to call k + 1
\* whenever the budget exceeds k intervals.
C12_FirstNonEmptyIsReturned ==
    /\ (entry = "retryOrTimeout" /\ pc = "done" /\ ret.success) =>
          /\ Len(ret.value) > 0
          /\ ret.value = lastResponse
          /\ retryFuncCalls >= 1
          /\ rotSleeps = retryFuncCalls - 1
          /\ now - rotStartTime >= rotSleeps * RETRY_OR_TIMEOUT_SLEEP_MS
    /\ (entry = "getRunId" /\ pc = "run_afterFetch" /\ fetchWorkflowRunIds.success) =>
          /\ Len(fetchWorkflowRunIds.value) > 0
          /\ fetchWorkflowRunIds.value = lastResponse
    /\ (/\ pc = "rot_while"
        /\ rotSleeps = retryFuncCalls
        /\ now - rotStartTime = retryFuncCalls * RETRY_OR_TIMEOUT_SLEEP_MS
        /\ rotTimeoutMs > retryFuncCalls * RETRY_OR_TIMEOUT_SLEEP_MS) => RetryLoopContinues

C12_Witness ==
    /\ entry = "retryOrTimeout"
    /\ pc = "done"
    /\ ret.success
    /\ ret.value = <<102, 101>>
    /\ retryFuncCalls = 3
    /\ rotSleeps = 2
    /\ rotTimeoutMs = 2500
    /\ now - rotStartTime = 2000

\* a candidate fetch of getRunId is in progress; rotTimeoutMs is the budget
\* that getRunId handed to retryOrTimeout for it
C13_FetchInProgress ==
    /\ entry = "getRunId"
    /\ pc \in {"rot_while", "rot_await", "rot_sleep"}

\* C13 as stated: the budget handed to retryOrTimeout is the larger of the
\* fixed fetch window and what was left of the overall timeout when the round
\* began.
C13_BudgetIsMaxOfWindowAndRemaining ==
    C13_FetchInProgress =>
        rotTimeoutMs = Max(WORKFLOW_FETCH_TIMEOUT_MS, timeoutMs - roundStartElapsed)

\* C13 amended: in every round the budget handed to retryOrTimeout is the
\* larger of the fixed fetch window and the whole overall timeout, whatever
\* time has elapsed; it is never below the fixed fetch window.
C13_BudgetIsMaxOfWindowAndTimeout ==
    C13_FetchInProgress =>
        /\ rotTimeoutMs = Max(WORKFLOW_FETCH_TIMEOUT_MS, timeoutMs)
        /\ rotTimeoutMs >= WORKFLOW_FETCH_TIMEOUT_MS

C13_Witness ==
    /\ C13_FetchInProgress
    /\ attemptNo = 2
    /\ timeoutMs = 65000
    /\ roundStartElapsed = 5000
    /\ rotTimeoutMs = 65000

\* sleeps between rounds against rounds begun, by the position of getRunId
C14_SleepsMatchRounds ==
    entry = "getRunId" =>
        CASE pc \in {"run_while", "run_sleep"} ->
                /\ roundSleeps = attemptNo
                /\ scanCalls = attemptNo
                /\ ~scanResult.success
                /\ ~fetchWorkflowRunIds.success /\ fetchWorkflowRunIds.reason # "timeout"
          [] pc = "done" /\ ret.success ->
                roundSleeps = attemptNo - 1
          [] pc = "done" /\ ~ret.success /\ fetchWorkflowRunIds.reason = "timeout" ->
                roundSleeps = attemptNo - 1
          [] pc = "done" /\ ~ret.success /\ fetchWorkflowRunIds.reason # "timeout" ->
                roundSleeps = attemptNo /\ scanCalls = attemptNo
          [] OTHER ->
                roundSleeps = attemptNo - 1

C15_OnlySleepsTookTime ==
    /\ entry = "getRunId"
    /\ now - startTime =
          (IF pc = "run_sleep" THEN roundSleeps - 1 ELSE roundSleeps)
              * WORKFLOW_JOB_STEPS_RETRY_MS

C20_OneOutstandingAtATime ==
    /\ outstanding \in {0, 1}
    /\ pc \in {"idle", "run_while", "run_afterFetch", "run_afterScan", "rot_while",
               "scan_while", "done", "thrown"} => outstanding = 0
    /\ pc \in {"rot_await", "rot_sleep", "scan_steps", "scan_url", "scan_sleep",
               "run_sleep"} => outstanding = 1

C20_Witness ==
    /\ entry = "getRunId"
    /\ attemptNo = 2
    /\ pc = "scan_steps"
    /\ currentWorkflowRunIndex = 1
    /\ stepFetches = <<4, 1>>
    /\ outstanding = 1

-----------------------------------------------------------------------------
\* The conditional-fetch cache (specification SpecEtag)

PendingCallers == {c \in Callers : pending[c] # Absent}
\* the step is the return of caller c's withEtag call
Returns(c) == pending[c] # Absent /\ pending'[c] = Absent /\ lastCall' # Absent

\* C16: a withEtag call sends If-None-Match if and only if, when it was made, an
\* entry had been stored since the last clearEtags for exactly its (endpoint,
\* params); the header's value is that entry's validator, and the parameters
\* themselves are sent on as they came.
C16_ConditionalHeaderIffEntry ==
    \A c \in PendingCallers :
        LET call == pending[c][1]
            headers == call.paramsWithEtag.headers
        IN /\ ("IfNoneMatch" \in DOMAIN headers) <=> (call.validatorAtCall # Absent)
           /\ call.validatorAtCall # Absent => headers.IfNoneMatch = call.validatorAtCall[1]
           /\ call.paramsWithEtag.params = call.params

\* two calls in progress that differ in one parameter only: the one whose
\* request had an entry carries its validator, the other carries no header
C16_Witness ==
    /\ PendingCallers = Callers
    /\ pending["c1"][1].params = ListWorkflowRunsRequest(RefBranch(Present("main"))).params
    /\ pending["c1"][1].paramsWithEtag.headers = [IfNoneMatch |-> <<"v1">>]
    /\ pending["c2"][1].params = ListWorkflowRunsRequest(RefTag).params
    /\ pending["c2"][1].paramsWithEtag.headers = NoHeaders
    /\ validators[ListWorkflowRunsRequest(RefBranch(Present("main")))] = Present(<<"v1">>)

\* C17: withEtag returns the response stored at its lookup when the fresh
\* response is a 304 whose validator equals the one sent and an entry existed
\* at the lookup; in every other case it returns the fresh response.
C17_ReturnedResponse ==
    \A c \in Callers : Returns(c) =>
        LET call == pending[c][1]
            headers == call.paramsWithEtag.headers
            response == lastCall'[1].response
            returned == lastCall'[1].returned
            unchanged == response.status = 304
            sameValidator == /\ "IfNoneMatch" \in DOMAIN headers
                             /\ extractEtag(response) = Present(headers.IfNoneMatch)
            priorEntry == call.savedResponse # Absent
        IN IF unchanged /\ sameValidator /\ priorEntry
           THEN returned = call.savedResponse[1]
           ELSE returned = response

C17_StoredResponseExactlyWhenUnchanged == [][C17_ReturnedResponse]_vars

\* a 304 was answered with the stored listing
C17_Witness ==
    /\ lastCall # Absent
    /\ lastCall[1].response.status = 304
    /\ lastCall[1].returned.status = 200
    /\ lastCall[1].returned.data = "d1"

\* C18: every entry's stored response is a 200 response.
C18_EntriesAre200 ==
    \A key \in DOMAIN etagStore : etagStore[key].savedResponse.status = 200

\* C19 as the specification words it: lookup and update of a call are one
\* step, so no call is ever between the two while another one looks up or
\* updates: at most one call is between its lookup and its update.
C19_LookupAndUpdateUninterrupted == Cardinality(PendingCallers) <= 1

\* C19 as the code has it: the lookup (with the request's headers) is one
\* step and changes nothing in the Map; the comparison and the update after
\* the response are another step, which touches the entry of the call's own
\* key only and writes the fresh response over whatever is stored there by
\* then; nothing but such an update or clearEtags changes the Map.
C19_Steps ==
    /\ \A c \in Callers : (pending[c] = Absent /\ pending'[c] # Absent) =>
           /\ etagStore' = etagStore
           /\ pending'[c][1].etag # Absent <=>
                 JSONStringify(pending'[c][1].endpoint, pending'[c][1].params)
                     \in DOMAIN etagStore
           /\ \A d \in Callers \ {c} : pending'[d] = pending[d]
    /\ \A c \in Callers : Returns(c) =>
           LET call == pending[c][1]
               key == JSONStringify(call.endpoint, call.params)
               response == lastCall'[1].response
           IN /\ \A k \in DOMAIN etagStore \ {key} :
                     k \in DOMAIN etagStore' /\ etagStore'[k] = etagStore[k]
              /\ DOMAIN etagStore' \subseteq DOMAIN etagStore \cup {key}
              /\ (~WithEtagHit(call, response) /\ Truthy(extractEtag(response))) =>
                     /\ key \in DOMAIN etagStore'
                     /\ etagStore'[key] = [etag |-> extractEtag(response)[1],
                                           savedResponse |-> response]
    /\ etagStore' # etagStore =>
           \/ etagStore' = EmptyStore
           \/ \E c \in Callers : Returns(c)

C19_LookupAndUpdateAreSeparateSteps == [][C19_Steps]_vars

\* a call looked up no entry, and while it waits for its response another call
\* has stored one under the same key
C19_Witness ==
    \E c \in PendingCallers :
        /\ pending[c][1].etag = Absent
        /\ JSONStringify(pending[c][1].endpoint, pending[c][1].params) \in DOMAIN etagStore
        /\ validators[[endpoint |-> pending[c][1].endpoint,
                       params |-> pending[c][1].params]] # Absent

-----------------------------------------------------------------------------
\* Errors of the listing, the wait between rounds, the scan's bookkeeping

\* the exception left while the candidates were being fetched: called directly,
\* or from getRunId in a round whose scan has not begun
C21_ThrownInFetch ==
    /\ pc = "thrown"
    /\ \/ entry = "retryOrTimeout"
       \/ entry = "getRunId" /\ scanCalls = attemptNo - 1

C21_NothingAfterTheThrow ==
    C21_ThrownInFetch =>
        /\ thrown \in ListingRejections
        /\ ~ret.success /\ ret.reason = "none"
        /\ retryFuncCalls >= 1
        /\ rotSleeps = retryFuncCalls - 1
        /\ lastResponse = <<>>
        /\ outstanding = 0
        /\ entry = "getRunId" =>
              /\ rotCalls = attemptNo
              /\ roundSleeps = attemptNo - 1
              /\ ~scanResult.success

\* C21: when the candidate fetcher throws inside retryOrTimeout the error
\* leaves retryOrTimeout (and getRunId) in that step: the producer has been
\* invoked once per sleep plus this once, no sleep and no call follows, no
\* result (Timeout or Success) is produced, and nothing happens afterwards.
C21_ListingErrorIsNotRetried ==
    /\ []C21_NothingAfterTheThrow
    /\ [][/\ pc # "thrown"
          /\ (pc = "rot_await" /\ pc' = "thrown") =>
                 /\ retryFuncCalls' = retryFuncCalls
                 /\ rotSleeps' = rotSleeps
                 /\ ret' = ret]_vars

\* the third invocation of the producer throws, in the second round
C21_Witness ==
    /\ C21_ThrownInFetch
    /\ entry = "getRunId"
    /\ attemptNo = 2
    /\ retryFuncCalls = 3
    /\ rotSleeps = 2
    /\ thrown = ErrOther

\* C28: the wait that follows attempt n of getRunId lasts n times the retry
\* interval.
C28_WaitIsLinearInAttempt ==
    [][(entry = "getRunId" /\ pc = "run_sleep") =>
           now' - now = attemptNo * WORKFLOW_JOB_STEPS_RETRY_MS]_vars

\* C29: once a step of the current candidate has matched (the URL lookup is in
\* progress), the next step of the scan is its return with success for that
\* candidate or the exception of the lookup: no backoff, no further step
\* fetch, no advance to the next candidate.
C29_MatchIsTerminal ==
    [][pc = "scan_url" =>
           \/ /\ pc' \in {"done", "run_afterScan"}
              /\ ScanOutcome'.success
              /\ ScanOutcome'.value.id = CurrentId
           \/ pc' = "thrown"]_vars

\* C30: the server-error attempt counter of a scan is between 0 and the
\* maximum; at the first step fetch of every candidate it is 0, and at every
\* step fetch it is at most the number of earlier fetches of that candidate.
C30_CounterIsPerCandidate ==
    /\ currentGetWorkflowRunJobStepsAttempt \in 0..WORKFLOW_JOB_STEPS_SERVER_ERROR_RETRY_MAX
    /\ pc = "scan_steps" =>
          /\ stepFetches[currentWorkflowRunIndex + 1] >= 1
          /\ currentGetWorkflowRunJobStepsAttempt <= stepFetches[currentWorkflowRunIndex + 1] - 1
          /\ stepFetches[currentWorkflowRunIndex + 1] = 1 =>
                currentGetWorkflowRunJobStepsAttempt = 0

\* the first step fetch of the second candidate, after the first candidate's
\* allowance was used up by server errors
C30_Witness ==
    /\ pc = "scan_steps"
    /\ currentWorkflowRunIndex = 1
    /\ stepFetches = <<WORKFLOW_JOB_STEPS_SERVER_ERROR_RETRY_MAX + 1, 1>>
    /\ onlyServerErrors
    /\ currentGetWorkflowRunJobStepsAttempt = 0

-----------------------------------------------------------------------------
\* The protocol run (specification SpecMain)

StepOps == [i \in 1..Len(mainSteps) |-> mainSteps[i].op]
StepRank(op) ==
    CASE op = "listRepoWorkflows" -> 1
      [] op = "createWorkflowDispatch" -> 2
      [] op = "getRunId" -> 3
LastStep == mainSteps[Len(mainSteps)]

\* C22: main's calls come in the order workflow listing pages, dispatch,
\* getRunId; every call but the latest has succeeded; there is at most one
\* dispatch, made only with the workflow id resolved (straight away for a
\* number, after a listing page for a name), and at most one getRunId, made
\* right after the dispatch.
C22_StepsInOrder ==
    /\ \A i \in 1..(Len(mainSteps) - 1) :
          /\ mainSteps[i].outcome = "ok"
          /\ StepRank(StepOps[i]) <= StepRank(StepOps[i + 1])
    /\ Cardinality({i \in 1..Len(mainSteps) : StepOps[i] = "createWorkflowDispatch"}) <= 1
    /\ Cardinality({i \in 1..Len(mainSteps) : StepOps[i] = "getRunId"}) <= 1
    /\ \A i \in 1..Len(mainSteps) :
          /\ StepOps[i] = "createWorkflowDispatch" =>
                /\ workflowId # Absent
                /\ IF config.workflow.isNumber THEN i = 1
                   ELSE i > 1 /\ StepOps[i - 1] = "listRepoWorkflows"
          /\ StepOps[i] = "getRunId" =>
                i > 1 /\ StepOps[i - 1] = "createWorkflowDispatch"
          /\ mainSteps[i].outcome = "threw" => i = Len(mainSteps) /\ mainPc = "done"

\* a run that resolved the name on the second page, dispatched and identified
C22_Witness ==
    /\ mainPc = "done"
    /\ StepOps = <<"listRepoWorkflows", "listRepoWorkflows", "createWorkflowDispatch",
                   "getRunId">>
    /\ LastStep.outcome = "success"

ReportSuccess == DOMAIN outputs = {"run_id", "run_url"} /\ failed = <<>>
ReportTimeout == outputs = NoOutputs /\ failed = <<TimeoutMessage>>
ReportUnexpected ==
    /\ outputs = NoOutputs
    /\ Len(failed) = 1
    /\ failed[1][1] \in {"Failed: An unhandled error has occurred: ",
                         "Failed: An unknown error has occurred: "}
One(b) == IF b THEN 1 ELSE 0

\* C23: a run that is over has made exactly one of the three reports, and a
\* run that is not over has made none; the outputs are set only when getRunId
\* returned success, to its id and URL; the timeout is flagged only when
\* getRunId returned the timeout.
C23_ExactlyOneReport ==
    /\ mainPc # "done" => outputs = NoOutputs /\ failed = <<>>
    /\ mainPc = "done" =>
          One(ReportSuccess) + One(ReportTimeout) + One(ReportUnexpected) = 1
    /\ outputs # NoOutputs =>
          /\ LastStep = Step("getRunId", "success")
          /\ outputs.run_id \in RunIds
          /\ outputs.run_url = UrlOf(outputs.run_id)
    /\ ReportTimeout <=> (mainSteps # <<>> /\ LastStep = Step("getRunId", "timeout"))

C23_Witness ==
    /\ mainPc = "done"
    /\ outputs = [run_id |-> 102, run_url |-> UrlOf(102)]
    /\ failed = <<>>
    /\ LastStep.op = "getRunId"

\* the last segment of a path
FinalSegment(path) ==
    LET slashes == {i \in 1..Len(path) : path[i] = "/"}
        last == IF slashes = {} THEN 0
                ELSE CHOOSE i \in slashes : \A j \in slashes : j <= i
    IN SubSeq(path, last + 1, Len(path))
ListedWorkflows ==
    {workflowPages[p].data[i] : <<p, i>> \in
        {<<p, i>> \in (1..Len(workflowPages)) \X (1..2) :
             i <= Len(workflowPages[p].data)}}
NameResolutionBegun == config \in Configs /\ ~config.workflow.isNumber

\* C24: the id a file name resolves to is the id of a listed entry whose final
\* path segment is the file name.
C24_ExactSegmentSelected ==
    (NameResolutionBegun /\ workflowId # Absent) =>
        \E w \in ListedWorkflows :
            /\ w.id = workflowId[1]
            /\ FinalSegment(w.path) = config.workflow.text

\* C25: once the resolution of a file name is over, it has failed with the
\* not-found error exactly if every page was fetched with status 200 and no
\* entry of any page has the file name as its final segment; it has failed
\* with the upstream error exactly if the page fetched last has another
\* status; in both cases there is no workflow id.
C25_NotFoundExactlyWhenNoMatch ==
    (NameResolutionBegun /\ mainPc # "resolve") =>
        LET n == Len(workflowPages)
            allFetched == /\ n >= 1
                          /\ \A p \in 1..n : workflowPages[p].status = 200
                          /\ ~workflowPages[n].hasNext
            noMatch == \A w \in ListedWorkflows :
                           FinalSegment(w.path) # config.workflow.text
            notFound == failed = <<FailureMessage(ErrNoWorkflow)>>
            upstream == failed = <<FailureMessage(ErrWorkflowsStatus)>>
        IN /\ notFound <=> (allFetched /\ noMatch)
           /\ upstream <=> (n >= 1 /\ workflowPages[n].status # 200)
           /\ (notFound \/ upstream) => workflowId = Absent

\* C26: for a numeric workflow reference the workflow id is the number itself
\* and no page of the workflow listing is ever requested.
C26_NumericNeedsNoRemoteCall ==
    (config \in Configs /\ config.workflow.isNumber) =>
        /\ workflowId = Present(config.workflow.number)
        /\ workflowPages = <<>>
        /\ \A i \in 1..Len(mainSteps) : StepOps[i] # "listRepoWorkflows"
        /\ mainSteps # <<>> /\ StepOps[1] = "createWorkflowDispatch"

C26_Witness ==
    /\ mainPc = "dispatch"
    /\ config.workflow = NumberRef(7)
    /\ workflowId = Present(7)
    /\ mainSteps = <<Step("createWorkflowDispatch", "pending")>>

ParamNames(params) == {params[i][1] : i \in 1..Len(params)}
ParamValue(params, name) == params[CHOOSE i \in 1..Len(params) : params[i][1] = name][2]

\* C27: the listing request carries a branch parameter if and only if the
\* branch reference is not a tag and has a defined, non-empty name; then the
\* parameter is that name and the page size is 10, otherwise the page size
\* is 20.
C27_BranchFilterIffNamedBranch ==
    listRequest # Absent =>
        LET params == listRequest[1].params
            named == /\ ~branch[1].isTag
                     /\ branch[1].branchName # Absent
                     /\ branch[1].branchName[1] # ""
        IN /\ listRequest[1].endpoint = "listWorkflowRuns"
           /\ ("branch" \in ParamNames(params)) <=> named
           /\ named => /\ ParamValue(params, "branch") = branch[1].branchName[1]
                       /\ ParamValue(params, "per_page") = "10"
           /\ ~named => ParamValue(params, "per_page") = "20"

\* a filtered request for branch dev
C27_Witness ==
    /\ listRequest # Absent
    /\ config.ref = <<"/", "refs/heads/", "dev">>
    /\ branch = Present(RefBranch(Present("dev")))
    /\ ParamValue(listRequest[1].params, "branch") = "dev"
    /\ ParamValue(listRequest[1].params, "per_page") = "10"

-----------------------------------------------------------------------------
\* The cache after a call, and calls that overlap (specification SpecEtag)

KeyOf(call) == JSONStringify(call.endpoint, call.params)

\* C31: in the step in which a withEtag call returns, if its response carries
\* a validator then the Map holds an entry for the call's key with that
\* validator, whether the call returned the stored or the fresh response.
C31_Step ==
    \A c \in Callers : Returns(c) =>
        LET call == pending[c][1]
            response == lastCall'[1].response
        IN Truthy(extractEtag(response)) =>
               /\ KeyOf(call) \in DOMAIN etagStore'
               /\ etagStore'[KeyOf(call)].etag = extractEtag(response)[1]

C31_EntryHoldsResponseValidator == [][C31_Step]_vars

\* C39, the lookup: what the call keeps is the entry of its key as the Map has
\* it then, validator and response together, and the validator is the header
\* it sends.  The wait: nothing another call or clearEtags does changes what
\* the call keeps.  The return: on a 304 with the validator sent, the response
\* kept since the lookup is returned, whatever the Map holds by then.
C39_Steps ==
    \A c \in Callers :
        /\ (pending[c] = Absent /\ pending'[c] # Absent) =>
              LET call == pending'[c][1]
              IN IF KeyOf(call) \in DOMAIN etagStore
                 THEN /\ call.etag = Present(etagStore[KeyOf(call)].etag)
                      /\ call.savedResponse = Present(etagStore[KeyOf(call)].savedResponse)
                      /\ call.paramsWithEtag.headers = [IfNoneMatch |-> call.etag[1]]
                 ELSE /\ call.etag = Absent /\ call.savedResponse = Absent
                      /\ call.paramsWithEtag.headers = NoHeaders
        /\ (pending[c] # Absent /\ ~Returns(c) /\ pending'[c] # Absent) =>
              pending'[c] = pending[c]
        /\ Returns(c) =>
              LET call == pending[c][1]
                  response == lastCall'[1].response
              IN (/\ response.status = 304
                  /\ call.etag # Absent
                  /\ extractEtag(response) = call.etag) =>
                     lastCall'[1].returned = call.savedResponse[1]

C39_ReturnsResponseOfItsOwnLookup == [][C39_Steps]_vars

\* a call answered 304 for v1 has returned the listing stored with v1, while
\* every entry written since the last clearEtags, the one of its own key
\* among them, holds v2 by now: another call wrote it during the request
C39_Witness ==
    /\ lastCall # Absent
    /\ lastCall[1].response.status = 304
    /\ extractEtag(lastCall[1].response) = Present(<<"v1">>)
    /\ lastCall[1].returned.status = 200
    /\ extractEtag(lastCall[1].returned) = Present(<<"v1">>)
    /\ \A r \in Requests :
          /\ validators[r] = Present(<<"v2">>)
          /\ etagStore[JSONStringify(r.endpoint, r.params)].etag = <<"v2">>

-----------------------------------------------------------------------------
\* Rounds and the deadline, the retry primitive's count, termination

\* getRunId is inside a round that began before the deadline
C32_InRound ==
    /\ entry = "getRunId"
    /\ pc \in {"rot_while", "rot_await", "rot_sleep", "run_afterFetch",
               "scan_while", "scan_steps", "scan_url", "scan_sleep", "run_afterScan"}
    /\ roundStartElapsed < timeoutMs

\* no step inside such a round looks at the overall deadline: the candidate
\* fetch goes on within its own budget, a fetched list is scanned, the scan
\* fetches the steps of the candidate it stands at, a match is returned as
\* Success, and the Timeout failure is returned from inside the round only
\* when the candidate fetch itself has given up
C32_Step ==
    C32_InRound =>
        /\ (pc = "rot_while" /\ rotElapsedTime < rotTimeoutMs) => pc' = "rot_await"
        /\ (pc = "run_afterFetch" /\ fetchWorkflowRunIds.success) =>
              pc' = "scan_while" /\ workflowRunIds' = fetchWorkflowRunIds.value
        /\ (pc = "scan_while" /\ currentWorkflowRunIndex < Len(workflowRunIds)) =>
              /\ pc' = "scan_steps"
              /\ stepFetches'[currentWorkflowRunIndex + 1] =
                     stepFetches[currentWorkflowRunIndex + 1] + 1
        /\ (pc = "run_afterScan" /\ scanResult.success) =>
              pc' = "done" /\ ret' = scanResult
        /\ (pc' = "done" /\ ~ret'.success) =>
              pc = "run_afterFetch" /\ ~fetchWorkflowRunIds.success

\* C32: a round that began before the overall deadline runs to its end
\* whatever the clock shows meanwhile: the scan inspects every candidate up to
\* a match, and a match is returned as Success also when the deadline has
\* passed during the round.
C32_RoundRunsToCompletion == [][C32_Step]_vars

\* the deadline of 5 s passed during the candidate fetch of round 1; the scan
\* still went past the first candidate and its match on the second is returned
C32_Witness ==
    /\ entry = "getRunId"
    /\ pc = "done"
    /\ attemptNo = 1
    /\ timeoutMs = 5000
    /\ roundStartElapsed = 0
    /\ now - startTime >= timeoutMs
    /\ workflowRunIds = <<102, 101>>
    /\ stepFetches = <<1, 1>>
    /\ IsSuccessFor(ret, 101)

\* retryOrTimeout called directly has so far had a producer that resolved with
\* an empty array every time, at once: no time has passed but in its sleeps
C33_EmptyAndInstant ==
    /\ entry = "retryOrTimeout"
    /\ pc \in {"rot_while", "rot_await", "rot_sleep", "done"}
    /\ rotTimeoutMs > 0
    /\ lastResponse = <<>>
    /\ now - rotStartTime = rotSleeps * RETRY_OR_TIMEOUT_SLEEP_MS

CeilDiv(a, b) == (a + b - 1) \div b

\* C33: with a producer that always resolves empty and at once and a budget
\* B > 0, the producer is never invoked more than ceil(B / 1000) times, the
\* loop goes on as long as it was invoked fewer times, and the call returns
\* the timeout failure after exactly ceil(B / 1000) invocations, each followed
\* by one sleep (once for B = 1000).
C33_CallsAreCeilOfBudget ==
    C33_EmptyAndInstant =>
        LET n == CeilDiv(rotTimeoutMs, RETRY_OR_TIMEOUT_SLEEP_MS)
        IN /\ retryFuncCalls <= n
           /\ (pc = "rot_while" /\ retryFuncCalls < n) => RetryLoopContinues
           /\ (pc = "rot_while" /\ retryFuncCalls = n) => ~RetryLoopContinues
           /\ pc = "done" =>
                 /\ ret = Failure("timeout")
                 /\ retryFuncCalls = n
                 /\ rotSleeps = n
                 /\ rotTimeoutMs = RETRY_OR_TIMEOUT_SLEEP_MS => retryFuncCalls = 1

\* budget 1000: one invocation; budget 2500: three
C33_Witness ==
    /\ C33_EmptyAndInstant
    /\ pc = "done"
    /\ rotTimeoutMs = 1000
    /\ retryFuncCalls = 1
    /\ ret = Failure("timeout")

-----------------------------------------------------------------------------
\* What a Success names, the composition with the retry primitive, undefined
\* entries, the entry after the deadline

\* the log of the candidate the scan stands at ends with a step fetch that
\* resolved with a matching name, followed by `after`
C35_LogEndsWithMatch(after) ==
    LET n == Len(candidateLog) - Len(after)
    IN /\ n >= 1
       /\ candidateLog[n].op = "steps"
       /\ candidateLog[n].out = "match"
       /\ candidateLog[n].idx = currentWorkflowRunIndex
       /\ \A k \in 1..Len(after) :
             /\ candidateLog[n + k].op = after[k][1]
             /\ candidateLog[n + k].out = after[k][2]
             /\ candidateLog[n + k].idx = currentWorkflowRunIndex

\* C35: a Success of getRunId names an element of the list the candidate fetch
\* of the round it ended in returned, the step fetch made latest for that
\* element in that round resolved with a matching name, and the URL is the one
\* the lookup for that id resolved with right after; a URL lookup is only ever
\* issued right after a step fetch of the same candidate that matched.
C35_SuccessNamesAMatchedCandidate ==
    /\ (entry = "getRunId" /\ pc = "done" /\ ret.success) =>
          /\ rotCalls = attemptNo /\ scanCalls = attemptNo
          /\ fetchWorkflowRunIds.success
          /\ fetchWorkflowRunIds.value = lastResponse
          /\ workflowRunIds = lastResponse
          /\ currentWorkflowRunIndex < Len(workflowRunIds)
          /\ ret.value.id = workflowRunIds[currentWorkflowRunIndex + 1]
          /\ ret.value.id \in RunIds
          /\ stepFetches[currentWorkflowRunIndex + 1] >= 1
          /\ C35_LogEndsWithMatch(<< <<"url", "resolved">> >>)
          /\ ret.value.url = UrlOf(ret.value.id)
    /\ pc = "scan_url" => C35_LogEndsWithMatch(<<>>)
    /\ \A k \in 1..Len(candidateLog) :
          candidateLog[k].op = "url" =>
              /\ k > 1
              /\ candidateLog[k - 1].op = "steps"
              /\ candidateLog[k - 1].out = "match"
              /\ candidateLog[k - 1].idx = candidateLog[k].idx

\* round 2 fetched [102, 101]; 102 did not match, 101 did
C35_Witness ==
    /\ entry = "getRunId"
    /\ pc = "done"
    /\ attemptNo = 2
    /\ lastResponse = <<102, 101>>
    /\ currentWorkflowRunIndex = 1
    /\ ret = Success([id |-> 101, url |-> UrlOf(101)])
    /\ Len(candidateLog) = 2

\* C36: in getRunId every scan is handed the non-empty array the producer
\* resolved with latest, so attemptToFindRunId is never entered with an empty
\* list; whatever failure getRunId returns has the reason "timeout".
C36_ScanNeverGetsEmptyList ==
    entry = "getRunId" =>
        /\ pc \in {"scan_while", "scan_steps", "scan_url", "scan_sleep", "run_afterScan"} =>
              /\ Len(workflowRunIds) > 0
              /\ workflowRunIds = lastResponse
              /\ fetchWorkflowRunIds = Success(lastResponse)
              /\ Len(stepFetches) = Len(workflowRunIds)
        /\ scanCalls <= rotCalls
        /\ (fetchWorkflowRunIds.success => Len(fetchWorkflowRunIds.value) > 0)
        /\ (~scanResult.success => scanResult.reason \in {"none", "timeout"})
        /\ (pc = "done" /\ ~ret.success) => ret.reason = "timeout"
        /\ ret.reason \notin {"invalid input"}

\* the scan of round 2 has returned a failure for the one candidate fetched
C36_Witness ==
    /\ entry = "getRunId"
    /\ pc = "run_afterScan"
    /\ attemptNo = 2
    /\ workflowRunIds = <<101>>
    /\ scanResult = Failure("timeout")
    /\ stepFetches = <<1>>

\* index (from 1) of the first undefined entry of the list, 0 if there is none
FirstUndefined ==
    IF AllDefined THEN 0
    ELSE CHOOSE j \in 1..Len(workflowRunIds) :
             /\ workflowRunIds[j] = Undefined
             /\ \A k \in 1..(j - 1) : workflowRunIds[k] # Undefined

\* C37: no step fetch is ever issued for an undefined entry or for any entry
\* after it; the scan never moves past it; a scan that returned standing at
\* it returned the failure, and one that returned Success stood before it.
C37_UndefinedEntryEndsScan ==
    (entry = "attemptToFindRunId" /\ FirstUndefined > 0) =>
        /\ \A j \in FirstUndefined..Len(workflowRunIds) : stepFetches[j] = 0
        /\ currentWorkflowRunIndex <= FirstUndefined - 1
        /\ (pc = "done" /\ currentWorkflowRunIndex = FirstUndefined - 1) =>
              ret = Failure("timeout")
        /\ (pc = "done" /\ ret.success) =>
              currentWorkflowRunIndex < FirstUndefined - 1

\* [undefined, 101]: the scan returned the failure without a step fetch for
\* 101
C37_Witness ==
    /\ entry = "attemptToFindRunId"
    /\ pc = "done"
    /\ workflowRunIds = <<Undefined, 101>>
    /\ stepFetches = <<0, 0>>
    /\ candidateLog = <<>>
    /\ ret = Failure("timeout")

\* getRunId has not begun a round; elapsedTime is still the measurement taken
\* at entry (part_016:142)
C38_BeforeFirstRound == entry = "getRunId" /\ attemptNo = 0

\* C38: until the first round begins getRunId has made no candidate fetch, no
\* scan and no sleep, and no time has passed since it was entered; when the
\* time elapsed at entry has reached the timeout, the one step it takes is the
\* return of the Timeout failure, so that no round is ever begun.
C38_State ==
    C38_BeforeFirstRound =>
        /\ pc \in {"run_while", "done"}
        /\ elapsedTime = now - startTime
        /\ rotCalls = 0 /\ retryFuncCalls = 0 /\ scanCalls = 0
        /\ roundSleeps = 0 /\ rotSleeps = 0
        /\ stepFetches = <<>> /\ candidateLog = <<>>
        /\ outstanding = 0
        /\ pc = "done" => (ret = Failure("timeout") /\ elapsedTime >= timeoutMs)

C38_Step ==
    (C38_BeforeFirstRound /\ pc = "run_while") =>
        IF now - startTime >= timeoutMs
        THEN pc' = "done" /\ ret' = Failure("timeout") /\ attemptNo' = 0 /\ now' = now
        ELSE attemptNo' = 1

C38_LateEntryMakesNoRound == []C38_State /\ [][C38_Step]_vars

\* entered 5 s after the start time with a timeout of 5 s
C38_Witness ==
    /\ C38_BeforeFirstRound
    /\ pc = "done"
    /\ timeoutMs = 5000
    /\ now - startTime = 5000
    /\ ret = Failure("timeout")
    /\ rotCalls = 0

-----------------------------------------------------------------------------
\* The scan ends (specification SpecScan)

RECURSIVE SumOf(_)
SumOf(counts) == IF counts = <<>> THEN 0 ELSE Head(counts) + SumOf(Tail(counts))

C40_FetchBound ==
    entry = "attemptToFindRunId" =>
        /\ Len(stepFetches) = Len(workflowRunIds)
        /\ \A j \in 1..Len(stepFetches) :
              stepFetches[j] <= WORKFLOW_JOB_STEPS_SERVER_ERROR_RETRY_MAX + 1
        /\ SumOf(stepFetches) <=
              Len(workflowRunIds) * (WORKFLOW_JOB_STEPS_SERVER_ERROR_RETRY_MAX + 1)

C40_Returned == pc \in {"done", "thrown"}

\* C40: for every candidate list and every outcome of the step fetches and URL
\* lookups, a call of attemptToFindRunId makes at most
\* (number of candidates) x (maximum retries + 1) step fetches, at most
\* maximum + 1 of them for one candidate, and it returns or throws.
C40_ScanTerminatesWithinBound ==
    /\ [][C40_FetchBound']_vars
    /\ (entry = "attemptToFindRunId" /\ pc = "scan_while") ~> C40_Returned

\* a scan of two candidates that returned after the most fetches there can be,
\* some of them retried after the URL lookup failed
C40_Witness ==
    /\ entry = "attemptToFindRunId"
    /\ pc = "done"
    /\ Len(workflowRunIds) = 2
    /\ SumOf(stepFetches) = 2 * (WORKFLOW_JOB_STEPS_SERVER_ERROR_RETRY_MAX + 1)
    /\ \E k \in 1..Len(candidateLog) :
          candidateLog[k].op = "url" /\ candidateLog[k].out = "Server Error"

-----------------------------------------------------------------------------
\* getRunId ends: a measure that grows with every step and is bounded

C34_Returned == pc \in {"done", "thrown"}

\* the place within a round: fetch, scan, the inter-round sleep, the loop test
C34_Phase ==
    CASE pc \in {"rot_while", "rot_await", "rot_sleep"} -> 1
      [] pc = "run_afterFetch" -> 2
      [] pc \in {"scan_while", "scan_steps", "scan_url", "scan_sleep"} -> 3
      [] pc = "run_afterScan" -> 4
      [] pc = "run_sleep" -> 5
      [] pc = "run_while" -> 6
      [] OTHER -> 7

\* the progress within the fetch (producer calls made) or the scan (step
\* fetches made), and the place between two of them
C34_Inner ==
    CASE pc = "rot_await"  -> 3 * retryFuncCalls
      [] pc = "rot_sleep"  -> 3 * retryFuncCalls + 1
      [] pc = "rot_while"  -> 3 * retryFuncCalls + 2
      [] pc = "scan_steps" -> 4 * SumOf(stepFetches)
      [] pc = "scan_url"   -> 4 * SumOf(stepFetches) + 1
      [] pc = "scan_sleep" -> 4 * SumOf(stepFetches) + 2
      [] pc = "scan_while" -> 4 * SumOf(stepFetches) + 3
      [] OTHER -> 0

\* what the timeout allows: rounds, producer calls in a fetch, step fetches in
\* a scan
C34_MaxRoundsFor(timeout) == CeilDiv(timeout, WORKFLOW_JOB_STEPS_RETRY_MS) + 1
C34_MaxCallsFor(timeout) ==
    CeilDiv(Max(WORKFLOW_FETCH_TIMEOUT_MS, timeout), RETRY_OR_TIMEOUT_SLEEP_MS)
C34_MaxFetches == MaxLen * (WORKFLOW_JOB_STEPS_SERVER_ERROR_RETRY_MAX + 1)

C34_Span == Max(3 * C34_MaxCallsFor(timeoutMs) + 2, 4 * C34_MaxFetches + 3) + 1

C34_Measure == (attemptNo * 8 + C34_Phase) * C34_Span + C34_Inner

C34_Bounded ==
    entry = "getRunId" =>
        /\ attemptNo <= C34_MaxRoundsFor(timeoutMs)
        /\ C34_Inner < C34_Span
        /\ C34_Measure <= (C34_MaxRoundsFor(timeoutMs) * 8 + 7) * C34_Span
        /\ (pc \in {"rot_while", "rot_await", "rot_sleep"}) =>
              retryFuncCalls <= C34_MaxCallsFor(timeoutMs)

\* a call that has not returned can take its next step: the remote call it
\* waits for settles, the sleep it waits for ends, or its own code runs on
C34_NeverStuck ==
    (entry = "getRunId" /\ timeoutMs <= 5000 * MaxTimeoutSteps /\ ~C34_Returned) =>
        ENABLED Next

C34_Step ==
    /\ (entry = "getRunId" /\ entry' = "getRunId") => C34_Measure' > C34_Measure
    /\ (entry = "getRunId" /\ C34_Returned) => UNCHANGED vars

\* C34: getRunId always ends, whatever the finite timeout.  Every step of a
\* call strictly increases a measure that the timeout bounds (rounds by the
\* timeout over the round interval, producer calls of a fetch by its budget,
\* step fetches of a scan by candidates x (maximum + 1)); while the call has
\* not returned a next step exists; and once it returned or threw nothing
\* follows.
C34_GetRunIdAlwaysEnds ==
    /\ []C34_Bounded
    /\ []C34_NeverStuck
    /\ [][C34_Step]_vars

\* a run that used every round its timeout allows and ended on the deadline
C34_Witness ==
    /\ entry = "getRunId"
    /\ pc = "done"
    /\ timeoutMs = 5000 * MaxTimeoutSteps
    /\ attemptNo = C34_MaxRoundsFor(timeoutMs)
    /\ ret = Failure("timeout")

====
